---- MODULE Spec2Model ----
(***************************************************************************)
(* Media processing graph engine of the measurement workbench.            *)
(*                                                                         *)
(* Part I  (LifeSpec): the start/stop state machine of one block          *)
(*   (core/base_blocks.py) together with the worker thread of the         *)
(*   concrete block classes SignalGenerator, FFTAnalyzer and               *)
(*   CurveSmoother and the upstream thread that pushes input into them.   *)
(*   Blocks share no life-cycle state, so one behaviour follows one block *)
(*   instance; its class is chosen by Init.                                *)
(* Part II (GraphSpec, FormatSpec): the port protocol (core/port.py) and *)
(*   the ProcessingEngine's block map, producer list and connections       *)
(*   (core/processing_engine.py). GraphSpec edits the graph; FormatSpec    *)
(*   loads a saved graph, changes the generator's settings and runs it.    *)
(***************************************************************************)
EXTENDS Integers, Sequences, FiniteSets, TLC

VARIABLES
    kind,        \* class of the block instance under observation
    state,       \* Block._state
    stateLock,   \* holder of Block._state_lock across steps ("free" or "ctl")
    ctlPc,       \* position of the controlling thread inside start()/stop()
    call,        \* the controlling thread's current / most recent start()/stop() call
    hooks,       \* the two most recent on_start/on_stop invocations and their outcomes
    wpc,         \* position of the block's worker thread
    cond,        \* holder of the block's Condition lock ("free" or "worker")
    csLock,      \* holder of CurveSmoother._lock ("free" or "worker")
    csRunning,   \* CurveSmoother._is_running
    newData,     \* CurveSmoother._new_data_available
    bufLen,      \* len(FFTAnalyzer._buffer)
    upPc,        \* position of the upstream thread inside CurveSmoother.on_input_received
    flagSeenWaiting, \* the run flag the worker tests was cleared while it was waiting
    sendTick,    \* flips on every frame the block sends on its output ports
    fft,         \* FFTAnalyzer: numbered samples buffered, frames taken
    smo,          \* CurveSmoother: frame numbers arriving, stored, in hand, processed
    sg,          \* SignalGenerator: parameters, dirty flag, waveform table, read index
    bufId,       \* identity of the FFTAnalyzer's _buffer object: changes when the buffer is replaced
    blocks,      \* ProcessingEngine._blocks: key -> block instance (NoBlock: key absent)
    producers,   \* ProcessingEngine._producers
    engRunning,  \* ProcessingEngine._is_running
    blockId,     \* Block.id of every block instance ("unset": attribute never assigned)
    bstate,      \* Block._state of every block instance
    cfg,         \* the SignalGenerator's _samplerate, _channels, _blocksize
    conn,        \* InputPort._connected_port of every input port
    dataSubs,    \* receivers of every OutputPort.data_signal, as <<output, input>> pairs
    fmtSubs,     \* receivers of every OutputPort.format_signal, as <<output, input>> pairs
    outFmt,      \* OutputPort.media_info
    inFmt,       \* InputPort.media_info
    obs,         \* per input port: what its owner was notified of since the latest connect()
    raised,      \* the latest call on the graph ended with an exception
    startLog,    \* the blocks the engine started for the current run, in the order of starting
    fftCfg,      \* the FFTAnalyzer's _fft_size, _fft_overlap, _fft_window
    fftDerived,  \* the FFTAnalyzer's _buffer, _window_array and scaling tables, by what they were built from
    propTick,    \* flips on every property_changed notification a block emits
    cap,         \* one AudioCapture block: settings, published format, open stream
    ring,        \* one MediaRingBuffer: backing array and indices
    scale,       \* one ScaleController
    trig,        \* one TriggerController and the frame it is asked about
    smooth,      \* one OctaveSmoother: relative width and precomputed windows
    setup,       \* BLOCK_REGISTRY and the port names of one block under construction
    vis,         \* one Scope's _channels_visibility and the channel names of its input format
    avg,         \* FrequencyResponse: averaging FIFO, running sum, frames since the reset
    sine,        \* SignalGenerator: sine parameters and the length of the table
    race         \* a worker-thread block driven by two calling threads

lifeVars == <<kind, state, stateLock, ctlPc, call, hooks, wpc, cond, csLock,
              csRunning, newData, bufLen, upPc, flagSeenWaiting, sendTick, bufId, sg, smo, fft>>

graphVars == <<blocks, producers, engRunning, blockId, bstate, cfg, conn, dataSubs,
               fmtSubs, outFmt, inFmt, obs, raised, startLog, fftCfg, fftDerived, propTick>>

helperVars == <<cap, ring, scale, trig, smooth, setup, vis, avg, sine, race>>

vars == <<lifeVars, graphVars, helperVars>>

----------------------------------------------------------------------------
(* Bounds of the life-cycle model *)

\* FFTAnalyzer._fft_size, scaled down
FftSize == 2
\* blocksize of the input delivered to the FFTAnalyzer, scaled down
InBlock == 1

Kinds == {"SignalGenerator", "FFTAnalyzer", "CurveSmoother", "Block"}
WorkerKinds == {"SignalGenerator", "FFTAnalyzer", "CurveSmoother"}

\* FFTAnalyzer._fft_overlap (constructor default)
FftOverlap == 0

\* capacity of the FFTAnalyzer's ring buffer
BufferSize == 2 * (FftSize + InBlock)

\* outcomes of a block-specific hook: returns True, returns False, raises
HookOutcomes(k) == IF k = "Block" THEN {"ok", "fail", "raise"} ELSE {"ok"}

Dead == {"none", "done"}

NoCall == [op |-> "none", pre |-> "STOPPED", hook |-> FALSE, res |-> "none", ret |-> "none"]
NoHooks == [last |-> "none", lastRes |-> "none", prev |-> "none", prevRes |-> "none"]

\* Block.is_running() as evaluated by a thread that can take the state lock
IsRunning == state = "STARTED"

\* number of setter calls followed
MaxSets == 3

\* values a SignalGenerator parameter takes
SgValues == {1, 2}

\* number of blocks in the waveform table
TableBlocks == 2

\* no waveform table yet
NoTable == [gen |-> FALSE, freq |-> 0, amp |-> 0]

\* SignalGenerator.__init__: default parameters, clean flag, no table
InitSg == [freq |-> 1, amp |-> 1, dirty |-> FALSE, needs |-> FALSE, rfreq |-> 1,
           table |-> NoTable, idx |-> 0, sent |-> NoTable, sets |-> 0]

\* _generate_signal with the frequency f read earlier: the table is rebuilt
\* from f and the amplitude, and the read indices are reset
GenerateSignal(g, f) ==
    [g EXCEPT !.table = [gen |-> TRUE, freq |-> f, amp |-> g.amp], !.idx = 0]

\* a frequency setter that stores the value and leaves the flag alone
SetFrequencyUnflagged(g, v) ==
    IF g.freq # v THEN [g EXCEPT !.freq = v] ELSE g

\* frequency.setter: under the lock, a different value is stored and flagged
SetFrequency(g, v) ==
    IF g.freq # v THEN [g EXCEPT !.freq = v, !.dirty = TRUE] ELSE g

\* amplitude.setter: under the lock, a different value is stored and flagged
SetAmplitude(g, v) ==
    IF g.amp # v THEN [g EXCEPT !.amp = v, !.dirty = TRUE] ELSE g

\* number of input samples followed after a format change
MaxSamples == (3 * BufferSize) \div 2

\* samples are numbered from 1 in arrival order since the last format change;
\* k counts the frames the worker took, frame is the last one
InitFft == [buf |-> <<>>, next |-> 1, k |-> 0, frame |-> <<>>]

\* the input block that arrives next
NextBlock(f) == [i \in 1..InBlock |-> f.next + i - 1]

\* on_input_received: the block is appended, or extend raises on overrun and
\* the block is gone
ExtendBuffer(f) ==
    IF Len(f.buf) + InBlock > BufferSize
    THEN [f EXCEPT !.next = f.next + InBlock]
    ELSE [f EXCEPT !.buf = f.buf \o NextBlock(f), !.next = f.next + InBlock]

\* _run: data = self._buffer[:fft_size]; self._buffer.reduce(fft_size - overlap)
TakeFrame(f) ==
    [f EXCEPT !.frame = SubSeq(f.buf, 1, FftSize),
              !.buf = SubSeq(f.buf, FftSize - FftOverlap + 1, Len(f.buf)),
              !.k = f.k + 1]

\* number of frames delivered to a CurveSmoother
MaxFrames == 3

\* CurveSmoother.__init__: frames are numbered from 1 as they arrive; 0 is None
InitCs == [next |-> 1, slot |-> 0, stored |-> 0, proc |-> 0, last |-> 0]

\* a worker that takes the frame and leaves the flag set
FlagKept(flag) == flag

\* _run: the frame is taken and _new_data_available cleared ("consumed")
FlagConsumed(flag) == FALSE

\* on_input_received with the lock acquired: the slot is overwritten
StoreFrame(c, f) == [c EXCEPT !.slot = f, !.stored = f]

LifeStart ==
    /\ kind \in Kinds
    /\ state = "STOPPED"
    /\ stateLock = "free"
    /\ ctlPc = "idle"
    /\ call = NoCall
    /\ hooks = NoHooks
    /\ wpc = "none"
    /\ cond = "free"
    /\ csLock = "free"
    /\ csRunning = FALSE
    /\ newData = FALSE
    /\ bufLen = 0
    /\ upPc = "idle"
    /\ flagSeenWaiting = FALSE
    /\ sendTick = FALSE
    /\ bufId = 0
    /\ sg = InitSg
    /\ smo = InitCs
    /\ fft = InitFft

InvokeHook(h) == [last |-> h, lastRes |-> "pending", prev |-> hooks.last, prevRes |-> hooks.lastRes]
HookDone(r) == [hooks EXCEPT !.lastRes = r]

----------------------------------------------------------------------------
(* Block.start *)

NeedsStartAlways == TRUE

\* start() acts only on a STOPPED block
NeedsStart == state = "STOPPED"

\* start(): take the state lock; STOPPED -> STARTED and call on_start, else no-op True
StartEnter ==
    /\ ctlPc = "idle"
    /\ stateLock = "free"
    /\ IF NeedsStart
       THEN /\ state' = "STARTED"
            /\ stateLock' = "ctl"
            /\ ctlPc' = "on_start"
            /\ call' = [op |-> "start", pre |-> state, hook |-> TRUE, res |-> "pending", ret |-> "none"]
            /\ hooks' = InvokeHook("on_start")
       ELSE /\ call' = [op |-> "start", pre |-> state, hook |-> FALSE, res |-> "none", ret |-> "True"]
            /\ UNCHANGED <<state, stateLock, ctlPc, hooks>>
    /\ UNCHANGED <<kind, wpc, cond, csLock, csRunning, newData, bufLen, upPc,
                   flagSeenWaiting, sendTick, bufId, sg, smo, fft>>
    /\ UNCHANGED <<graphVars, helperVars>>

\* on_start of a block without worker thread: any outcome
BlockOnStart ==
    /\ ctlPc = "on_start"
    /\ kind = "Block"
    /\ \E r \in HookOutcomes(kind) :
          /\ call' = [call EXCEPT !.res = r]
          /\ hooks' = HookDone(r)
    /\ ctlPc' = "start_ret"
    /\ UNCHANGED <<kind, state, stateLock, wpc, cond, csLock, csRunning, newData,
                   bufLen, upPc, flagSeenWaiting, sendTick, bufId, sg, smo, fft>>
    /\ UNCHANGED <<graphVars, helperVars>>

\* SignalGenerator.on_start: generate the table on the calling thread, then
\* create and start the worker thread
SgOnStart ==
    /\ ctlPc = "on_start"
    /\ kind = "SignalGenerator"
    /\ sg' = GenerateSignal(sg, sg.freq)
    /\ wpc' = "check"
    /\ call' = [call EXCEPT !.res = "ok"]
    /\ hooks' = HookDone("ok")
    /\ ctlPc' = "start_ret"
    /\ UNCHANGED <<kind, state, stateLock, cond, csLock, csRunning, newData,
                   bufLen, upPc, flagSeenWaiting, sendTick, bufId, smo, fft>>
    /\ UNCHANGED <<graphVars, helperVars>>

\* FFTAnalyzer.on_start: create and start the thread
FftOnStart ==
    /\ ctlPc = "on_start"
    /\ kind = "FFTAnalyzer"
    /\ wpc' = "loop"
    /\ flagSeenWaiting' = FALSE
    /\ call' = [call EXCEPT !.res = "ok"]
    /\ hooks' = HookDone("ok")
    /\ ctlPc' = "start_ret"
    /\ UNCHANGED <<kind, state, stateLock, cond, csLock, csRunning, newData,
                   bufLen, upPc, sendTick, bufId, sg, smo, fft>>
    /\ UNCHANGED <<graphVars, helperVars>>

\* CurveSmoother.on_start, first half: under _lock set the flags
CsOnStartFlags ==
    /\ ctlPc = "on_start"
    /\ kind = "CurveSmoother"
    /\ csLock = "free"
    /\ csRunning' = TRUE
    /\ newData' = FALSE
    /\ smo' = [smo EXCEPT !.slot = 0]
    /\ ctlPc' = "on_start_thread"
    /\ UNCHANGED <<kind, state, stateLock, call, hooks, wpc, cond, csLock, bufLen,
                   upPc, flagSeenWaiting, sendTick, bufId, sg, fft>>
    /\ UNCHANGED <<graphVars, helperVars>>

\* CurveSmoother.on_start, second half: create and start the thread
CsOnStartThread ==
    /\ ctlPc = "on_start_thread"
    /\ wpc' = "loop"
    /\ flagSeenWaiting' = FALSE
    /\ call' = [call EXCEPT !.res = "ok"]
    /\ hooks' = HookDone("ok")
    /\ ctlPc' = "start_ret"
    /\ UNCHANGED <<kind, state, stateLock, cond, csLock, csRunning, newData,
                   bufLen, upPc, sendTick, bufId, sg, smo, fft>>
    /\ UNCHANGED <<graphVars, helperVars>>

StateAfterOnStartKept(r) == state

\* the state start() leaves after on_start returned r
StateAfterOnStart(r) == IF r = "fail" THEN "STOPPED" ELSE state

\* what start()/stop() hands its caller after the hook returned r
ReturnOf(r) == CASE r = "ok" -> "True" [] r = "fail" -> "False" [] OTHER -> "raise"

\* start(): act on on_start's result and release the state lock
StartReturn ==
    /\ ctlPc = "start_ret"
    /\ state' = StateAfterOnStart(call.res)
    /\ call' = [call EXCEPT !.ret = ReturnOf(call.res)]
    /\ stateLock' = "free"
    /\ ctlPc' = "idle"
    /\ UNCHANGED <<kind, hooks, wpc, cond, csLock, csRunning, newData, bufLen, upPc,
                   flagSeenWaiting, sendTick, bufId, sg, smo, fft>>
    /\ UNCHANGED <<graphVars, helperVars>>

----------------------------------------------------------------------------
(* Block.stop *)

StateBeforeOnStopLate == state

\* the state stop() sets, under the lock, before it calls on_stop
StateBeforeOnStop == "STOPPED"

\* stop(): under the state lock STARTED -> STOPPED, else no-op True; the lock
\* is released before on_stop is called
StopEnter ==
    /\ ctlPc = "idle"
    /\ stateLock = "free"
    /\ IF state = "STARTED"
       THEN /\ state' = StateBeforeOnStop
            /\ ctlPc' = "on_stop"
            /\ call' = [op |-> "stop", pre |-> state, hook |-> TRUE, res |-> "pending", ret |-> "none"]
            /\ hooks' = InvokeHook("on_stop")
            /\ flagSeenWaiting' =
                   IF kind = "FFTAnalyzer" /\ wpc = "wait" /\ StateBeforeOnStop = "STOPPED"
                   THEN TRUE ELSE flagSeenWaiting
       ELSE /\ call' = [op |-> "stop", pre |-> state, hook |-> FALSE, res |-> "none", ret |-> "True"]
            /\ UNCHANGED <<state, ctlPc, hooks, flagSeenWaiting>>
    /\ UNCHANGED <<kind, stateLock, wpc, cond, csLock, csRunning, newData, bufLen,
                   upPc, sendTick, bufId, sg, smo, fft>>
    /\ UNCHANGED <<graphVars, helperVars>>

\* on_stop of a block without worker thread: any outcome
BlockOnStop ==
    /\ ctlPc = "on_stop"
    /\ kind = "Block"
    /\ \E r \in HookOutcomes(kind) :
          /\ call' = [call EXCEPT !.res = r]
          /\ hooks' = HookDone(r)
    /\ ctlPc' = "stop_ret"
    /\ UNCHANGED <<kind, state, stateLock, wpc, cond, csLock, csRunning, newData,
                   bufLen, upPc, flagSeenWaiting, sendTick, bufId, sg, smo, fft>>
    /\ UNCHANGED <<graphVars, helperVars>>

\* CurveSmoother.on_stop, first part: under _lock clear _is_running
CsOnStopFlag ==
    /\ ctlPc = "on_stop"
    /\ kind = "CurveSmoother"
    /\ csLock = "free"
    /\ csRunning' = FALSE
    /\ flagSeenWaiting' = IF wpc = "wait" THEN TRUE ELSE flagSeenWaiting
    /\ ctlPc' = "on_stop_notify"
    /\ UNCHANGED <<kind, state, stateLock, call, hooks, wpc, cond, csLock, newData,
                   bufLen, upPc, sendTick, bufId, sg, smo, fft>>
    /\ UNCHANGED <<graphVars, helperVars>>

NotNotified(p) == p

\* the worker position after Condition.notify_all() reached it
Notified(p) == IF p = "wait" THEN "woken" ELSE p

\* FFTAnalyzer.on_stop / CurveSmoother.on_stop: with the condition held, notify_all
OnStopNotify ==
    /\ \/ ctlPc = "on_stop" /\ kind = "FFTAnalyzer"
       \/ ctlPc = "on_stop_notify"
    /\ cond = "free"
    /\ wpc' = Notified(wpc)
    /\ ctlPc' = "on_stop_join"
    /\ UNCHANGED <<kind, state, stateLock, call, hooks, cond, csLock, csRunning,
                   newData, bufLen, upPc, flagSeenWaiting, sendTick, bufId, sg, smo, fft>>
    /\ UNCHANGED <<graphVars, helperVars>>

JoinableAtOnce == TRUE

\* Thread.join() returns once the worker thread has exited
Joinable == wpc \in Dead

\* on_stop: join the worker thread, return True
OnStopJoin ==
    /\ \/ ctlPc = "on_stop" /\ kind = "SignalGenerator"
       \/ ctlPc = "on_stop_join"
    /\ Joinable
    /\ call' = [call EXCEPT !.res = "ok"]
    /\ hooks' = HookDone("ok")
    /\ ctlPc' = "stop_ret"
    /\ UNCHANGED <<kind, state, stateLock, wpc, cond, csLock, csRunning, newData,
                   bufLen, upPc, flagSeenWaiting, sendTick, bufId, sg, smo, fft>>
    /\ UNCHANGED <<graphVars, helperVars>>

\* the state stop() leaves after on_stop returned r
StateAfterOnStop(r) == IF r = "fail" THEN "STARTED" ELSE state

\* stop(): act on on_stop's result
StopReturn ==
    /\ ctlPc = "stop_ret"
    /\ stateLock = "free"
    /\ state' = StateAfterOnStop(call.res)
    /\ call' = [call EXCEPT !.ret = ReturnOf(call.res)]
    /\ ctlPc' = "idle"
    /\ UNCHANGED <<kind, stateLock, hooks, wpc, cond, csLock, csRunning, newData,
                   bufLen, upPc, flagSeenWaiting, sendTick, bufId, sg, smo, fft>>
    /\ UNCHANGED <<graphVars, helperVars>>

----------------------------------------------------------------------------
(* SignalGenerator._run and the parameter setters *)

\* loop head, once per timer period: leave the loop once is_running() is False
SgCheck ==
    /\ kind = "SignalGenerator"
    /\ wpc = "check"
    /\ stateLock = "free"
    /\ wpc' = IF IsRunning THEN "flag" ELSE "done"
    /\ UNCHANGED <<kind, state, stateLock, ctlPc, call, hooks, cond, csLock,
                   csRunning, newData, bufLen, upPc, flagSeenWaiting, sendTick, bufId, sg, smo, fft>>
    /\ UNCHANGED <<graphVars, helperVars>>

\* with self._lock: read and clear _params_changed
SgFlag ==
    /\ kind = "SignalGenerator"
    /\ wpc = "flag"
    /\ sg' = [sg EXCEPT !.needs = sg.dirty, !.dirty = FALSE]
    /\ wpc' = IF sg.dirty THEN "gen_read" ELSE "send"
    /\ UNCHANGED <<kind, state, stateLock, ctlPc, call, hooks, cond, csLock,
                   csRunning, newData, bufLen, upPc, flagSeenWaiting, sendTick, bufId, smo, fft>>
    /\ UNCHANGED <<graphVars, helperVars>>

\* _generate_signal, outside the lock: the frequency is read first
SgGenRead ==
    /\ kind = "SignalGenerator"
    /\ wpc = "gen_read"
    /\ sg' = [sg EXCEPT !.rfreq = sg.freq]
    /\ wpc' = "gen_build"
    /\ UNCHANGED <<kind, state, stateLock, ctlPc, call, hooks, cond, csLock,
                   csRunning, newData, bufLen, upPc, flagSeenWaiting, sendTick, bufId, smo, fft>>
    /\ UNCHANGED <<graphVars, helperVars>>

\* _generate_signal: the amplitude is read, the table stored, the indices reset
SgGenBuild ==
    /\ kind = "SignalGenerator"
    /\ wpc = "gen_build"
    /\ sg' = [GenerateSignal(sg, sg.rfreq) EXCEPT !.needs = FALSE]
    /\ wpc' = "send"
    /\ UNCHANGED <<kind, state, stateLock, ctlPc, call, hooks, cond, csLock,
                   csRunning, newData, bufLen, upPc, flagSeenWaiting, sendTick, bufId, smo, fft>>
    /\ UNCHANGED <<graphVars, helperVars>>

\* loop body: send the block at the read index on "out", advance the index
SgSend ==
    /\ kind = "SignalGenerator"
    /\ wpc = "send"
    /\ sendTick' = ~sendTick
    /\ sg' = [sg EXCEPT !.sent = sg.table, !.idx = (sg.idx + 1) % TableBlocks]
    /\ wpc' = "check"
    /\ UNCHANGED <<kind, state, stateLock, ctlPc, call, hooks, cond, csLock,
                   csRunning, newData, bufLen, upPc, flagSeenWaiting, bufId, smo, fft>>
    /\ UNCHANGED <<graphVars, helperVars>>

\* frequency setter, called on another thread
SgSetFrequency ==
    /\ kind = "SignalGenerator"
    /\ sg.sets < MaxSets
    /\ \E v \in SgValues : sg' = [SetFrequency(sg, v) EXCEPT !.sets = sg.sets + 1]
    /\ UNCHANGED <<kind, state, stateLock, ctlPc, call, hooks, wpc, cond, csLock,
                   csRunning, newData, bufLen, upPc, flagSeenWaiting, sendTick, bufId, smo, fft>>
    /\ UNCHANGED <<graphVars, helperVars>>

\* amplitude setter, called on another thread
SgSetAmplitude ==
    /\ kind = "SignalGenerator"
    /\ sg.sets < MaxSets
    /\ \E v \in SgValues : sg' = [SetAmplitude(sg, v) EXCEPT !.sets = sg.sets + 1]
    /\ UNCHANGED <<kind, state, stateLock, ctlPc, call, hooks, wpc, cond, csLock,
                   csRunning, newData, bufLen, upPc, flagSeenWaiting, sendTick, bufId, smo, fft>>
    /\ UNCHANGED <<graphVars, helperVars>>

----------------------------------------------------------------------------
(* FFTAnalyzer._run and on_input_received *)

\* while self.is_running():
FftLoop ==
    /\ kind = "FFTAnalyzer"
    /\ wpc = "loop"
    /\ stateLock = "free"
    /\ wpc' = IF IsRunning THEN "acquire" ELSE "done"
    /\ UNCHANGED <<kind, state, stateLock, ctlPc, call, hooks, cond, csLock,
                   csRunning, newData, bufLen, upPc, flagSeenWaiting, sendTick, bufId, sg, smo, fft>>
    /\ UNCHANGED <<graphVars, helperVars>>

\* with self._condition: (also the re-acquisition that ends Condition.wait())
FftAcquire ==
    /\ kind = "FFTAnalyzer"
    /\ wpc \in {"acquire", "woken"}
    /\ cond = "free"
    /\ cond' = "worker"
    /\ wpc' = "check"
    /\ UNCHANGED <<kind, state, stateLock, ctlPc, call, hooks, csLock, csRunning,
                   newData, bufLen, upPc, flagSeenWaiting, sendTick, bufId, sg, smo, fft>>
    /\ UNCHANGED <<graphVars, helperVars>>

\* the worker's test before waiting: not enough samples and still running
FftMustWait == bufLen < FftSize /\ IsRunning

\* while len(buffer) < fft_size and self.is_running(): self._condition.wait()
FftCheck ==
    /\ kind = "FFTAnalyzer"
    /\ wpc = "check"
    /\ bufLen < FftSize => stateLock = "free"
    /\ IF FftMustWait
       THEN /\ cond' = "free"
            /\ wpc' = "wait"
       ELSE /\ wpc' = "check_stop"
            /\ UNCHANGED cond
    /\ UNCHANGED <<kind, state, stateLock, ctlPc, call, hooks, csLock, csRunning,
                   newData, bufLen, upPc, flagSeenWaiting, sendTick, bufId, sg, smo, fft>>
    /\ UNCHANGED <<graphVars, helperVars>>

\* if not self.is_running(): break; else take fft_size samples and reduce
FftTake ==
    /\ kind = "FFTAnalyzer"
    /\ wpc = "check_stop"
    /\ stateLock = "free"
    /\ cond' = "free"
    /\ IF ~IsRunning
       THEN wpc' = "done" /\ UNCHANGED <<bufLen, fft>>
       ELSE IF bufLen < FftSize - FftOverlap
            THEN wpc' = "done" /\ UNCHANGED <<bufLen, fft>>   \* reduce() raises IndexError
            ELSE /\ wpc' = "send"
                 /\ bufLen' = bufLen - (FftSize - FftOverlap)
                 /\ fft' = TakeFrame(fft)
    /\ UNCHANGED <<kind, state, stateLock, ctlPc, call, hooks, csLock, csRunning,
                   newData, upPc, flagSeenWaiting, sendTick, bufId, sg, smo>>
    /\ UNCHANGED <<graphVars, helperVars>>

\* transform the frame and send it on the four output ports
FftSend ==
    /\ kind = "FFTAnalyzer"
    /\ wpc = "send"
    /\ sendTick' = ~sendTick
    /\ wpc' = "loop"
    /\ UNCHANGED <<kind, state, stateLock, ctlPc, call, hooks, cond, csLock,
                   csRunning, newData, bufLen, upPc, flagSeenWaiting, bufId, sg, smo, fft>>
    /\ UNCHANGED <<graphVars, helperVars>>

\* on_input_received on the upstream thread: with the condition held, extend
\* the buffer (raises when it would overrun) and notify_all once a frame is there
FftInput ==
    /\ kind = "FFTAnalyzer"
    /\ cond = "free"
    /\ fft.next + InBlock - 1 <= MaxSamples
    /\ fft' = ExtendBuffer(fft)
    /\ IF bufLen + InBlock > BufferSize
       THEN UNCHANGED <<bufLen, wpc>>
       ELSE /\ bufLen' = bufLen + InBlock
            /\ wpc' = IF bufLen + InBlock >= FftSize THEN Notified(wpc) ELSE wpc
    /\ UNCHANGED <<kind, state, stateLock, ctlPc, call, hooks, cond, csLock,
                   csRunning, newData, upPc, flagSeenWaiting, sendTick, bufId, sg, smo>>
    /\ UNCHANGED <<graphVars, helperVars>>

\* on_format_received on the upstream thread: _create_buffer replaces the
\* buffer by a new, empty one; the condition is not taken
FftFormatReceived ==
    /\ kind = "FFTAnalyzer"
    /\ bufId' = 1 - bufId
    /\ bufLen' = 0
    /\ fft' = InitFft
    /\ UNCHANGED <<kind, state, stateLock, ctlPc, call, hooks, wpc, cond, csLock,
                   csRunning, newData, upPc, flagSeenWaiting, sendTick, sg, smo>>
    /\ UNCHANGED <<graphVars, helperVars>>

----------------------------------------------------------------------------
(* CurveSmoother._run, _process_frame and on_input_received *)

\* while self._is_running:
CsLoop ==
    /\ kind = "CurveSmoother"
    /\ wpc = "loop"
    /\ wpc' = IF csRunning THEN "acquire" ELSE "done"
    /\ UNCHANGED <<kind, state, stateLock, ctlPc, call, hooks, cond, csLock,
                   csRunning, newData, bufLen, upPc, flagSeenWaiting, sendTick, bufId, sg, smo, fft>>
    /\ UNCHANGED <<graphVars, helperVars>>

\* with self._condition: (also the re-acquisition that ends Condition.wait())
CsAcquire ==
    /\ kind = "CurveSmoother"
    /\ wpc \in {"acquire", "woken"}
    /\ cond = "free"
    /\ cond' = "worker"
    /\ wpc' = "check"
    /\ UNCHANGED <<kind, state, stateLock, ctlPc, call, hooks, csLock, csRunning,
                   newData, bufLen, upPc, flagSeenWaiting, sendTick, bufId, sg, smo, fft>>
    /\ UNCHANGED <<graphVars, helperVars>>

\* the worker's test before waiting: no new frame and still running
CsMustWait == ~newData /\ csRunning

\* while not self._new_data_available and self._is_running: self._condition.wait()
CsCheck ==
    /\ kind = "CurveSmoother"
    /\ wpc = "check"
    /\ IF CsMustWait
       THEN /\ cond' = "free"
            /\ wpc' = "wait"
       ELSE /\ wpc' = "check_stop"
            /\ UNCHANGED cond
    /\ UNCHANGED <<kind, state, stateLock, ctlPc, call, hooks, csLock, csRunning,
                   newData, bufLen, upPc, flagSeenWaiting, sendTick, bufId, sg, smo, fft>>
    /\ UNCHANGED <<graphVars, helperVars>>

\* if not self._is_running: break; the condition is released either way
CsCheckStop ==
    /\ kind = "CurveSmoother"
    /\ wpc = "check_stop"
    /\ cond' = "free"
    /\ wpc' = IF ~csRunning THEN "done" ELSE "grab"
    /\ UNCHANGED <<kind, state, stateLock, ctlPc, call, hooks, csLock, csRunning,
                   newData, bufLen, upPc, flagSeenWaiting, sendTick, bufId, sg, smo, fft>>
    /\ UNCHANGED <<graphVars, helperVars>>

\* with self._lock: take the latest frame if there is a new one
CsGrab ==
    /\ kind = "CurveSmoother"
    /\ wpc = "grab"
    /\ csLock = "free"
    /\ IF newData
       THEN /\ newData' = FlagConsumed(newData)
            /\ smo' = [smo EXCEPT !.proc = smo.slot, !.last = smo.slot]
            /\ wpc' = "process"
       ELSE /\ UNCHANGED <<newData, smo>>
            /\ wpc' = "loop"
    /\ UNCHANGED <<kind, state, stateLock, ctlPc, call, hooks, cond, csLock,
                   csRunning, bufLen, upPc, flagSeenWaiting, sendTick, bufId, sg, fft>>
    /\ UNCHANGED <<graphVars, helperVars>>

\* _process_frame: with self._lock:
CsProcessAcquire ==
    /\ kind = "CurveSmoother"
    /\ wpc = "process"
    /\ csLock = "free"
    /\ csLock' = "worker"
    /\ wpc' = "fit"
    /\ UNCHANGED <<kind, state, stateLock, ctlPc, call, hooks, cond, csRunning,
                   newData, bufLen, upPc, flagSeenWaiting, sendTick, bufId, sg, smo, fft>>
    /\ UNCHANGED <<graphVars, helperVars>>

\* _process_frame body: fit the spline and send the frame; when the fit raises,
\* return without sending
CsProcessSend ==
    /\ kind = "CurveSmoother"
    /\ wpc = "fit"
    /\ \E fitted \in BOOLEAN : sendTick' = IF fitted THEN ~sendTick ELSE sendTick
    /\ csLock' = "free"
    /\ smo' = [smo EXCEPT !.proc = 0]
    /\ wpc' = "loop"
    /\ UNCHANGED <<kind, state, stateLock, ctlPc, call, hooks, cond, csRunning,
                   newData, bufLen, upPc, flagSeenWaiting, bufId, sg, fft>>
    /\ UNCHANGED <<graphVars, helperVars>>

\* on_input_received, first part: try the lock; store the frame or drop it
CsInputStore ==
    /\ kind = "CurveSmoother"
    /\ upPc = "idle"
    /\ smo.next <= MaxFrames
    /\ IF csLock = "free"
       THEN /\ smo' = [StoreFrame(smo, smo.next) EXCEPT !.next = smo.next + 1]
            /\ newData' = TRUE
            /\ upPc' = "notify"
       ELSE /\ smo' = [smo EXCEPT !.next = smo.next + 1]
            /\ UNCHANGED <<newData, upPc>>
    /\ UNCHANGED <<kind, state, stateLock, ctlPc, call, hooks, wpc, cond, csLock,
                   csRunning, bufLen, flagSeenWaiting, sendTick, bufId, sg, fft>>
    /\ UNCHANGED <<graphVars, helperVars>>

\* on_input_received, second part: with self._condition: notify()
CsInputNotify ==
    /\ kind = "CurveSmoother"
    /\ upPc = "notify"
    /\ cond = "free"
    /\ wpc' = Notified(wpc)
    /\ upPc' = "idle"
    /\ UNCHANGED <<kind, state, stateLock, ctlPc, call, hooks, cond, csLock,
                   csRunning, newData, bufLen, flagSeenWaiting, sendTick, bufId, sg, smo, fft>>
    /\ UNCHANGED <<graphVars, helperVars>>

----------------------------------------------------------------------------
(* Helper classes and device blocks, each followed on its own              *)

Max(a, b) == IF a >= b THEN a ELSE b
Min(a, b) == IF a <= b THEN a ELSE b
Abs(a) == IF a >= 0 THEN a ELSE -a

\* s[a:b] of a Python sequence, 0 <= a
Slice(s, a, b) == SubSeq(s, a + 1, Min(b, Len(s)))

----------------------------------------------------------------------------
(* blocks/audio_capture.py *)

\* input device indices
Devices == {0, 1}
CaptureRates == {44100, 48000}
\* values of capture_channels: sorted lists of device channel indices
CaptureChoices == {<<0>>, <<1>>, <<0, 1>>}

\* no InputStream is open
NoStream == [open |-> FALSE, device |-> 0, channels |-> 0, samplerate |-> 0]
\* the callback has delivered no frame on the open stream
NoFrame == [sent |-> FALSE, failed |-> FALSE, columns |-> <<>>]

\* AudioCapture._update_media_info
CaptureFormat(c) == [sr |-> c.samplerate, ch |-> c.channels]

\* AudioCapture.__init__ and init_ports, with the default device
InitCapture ==
    [state |-> "STOPPED", device |-> 0, captureChannels |-> <<0>>, channels |-> 1,
     samplerate |-> 44100, fmt |-> [sr |-> 44100, ch |-> 1],
     stream |-> NoStream, frame |-> NoFrame]

\* Block.is_running
CapIsRunning(c) == c.state = "STARTED"

\* AudioCapture.on_property_changed
CapOnPropertyChanged(c) == [c EXCEPT !.fmt = CaptureFormat(c)]

\* AudioCapture.device setter, called with an index
CapSetDeviceTo(c, d) ==
    IF CapIsRunning(c) THEN c
    ELSE CapOnPropertyChanged([c EXCEPT !.device = d])

\* MediaBlock.samplerate setter
CapSetSamplerateTo(c, v) ==
    IF ~CapIsRunning(c) THEN CapOnPropertyChanged([c EXCEPT !.samplerate = v])
    ELSE c

\* MediaBlock.channels setter
CapSetChannelsTo(c, v) ==
    IF ~CapIsRunning(c) THEN CapOnPropertyChanged([c EXCEPT !.channels = v])
    ELSE c

\* AudioCapture.capture_channels setter
CapSetCaptureChannelsTo(c, chs) ==
    CapSetChannelsTo([c EXCEPT !.captureChannels = chs], Len(chs))

\* max(self._capture_channels)
MaxChannel(chs) == CHOOSE m \in {chs[i] : i \in DOMAIN chs} :
                       \A i \in DOMAIN chs : chs[i] <= m

\* Block.start with AudioCapture.on_start
CapStart ==
    /\ cap.state = "STOPPED"
    /\ cap' = [cap EXCEPT !.state = "STARTED",
                          !.stream = [open |-> TRUE, device |-> cap.device,
                                      channels |-> MaxChannel(cap.captureChannels) + 1,
                                      samplerate |-> cap.samplerate],
                          !.frame = NoFrame]
    /\ UNCHANGED <<lifeVars, graphVars, ring, scale, trig, smooth, setup, vis, avg, sine, race>>

\* Block.stop with AudioCapture.on_stop
CapStop ==
    /\ cap.state = "STARTED"
    /\ cap' = [cap EXCEPT !.state = "STOPPED", !.stream = NoStream]
    /\ UNCHANGED <<lifeVars, graphVars, ring, scale, trig, smooth, setup, vis, avg, sine, race>>

\* AudioCapture._capture_callback on a frame of the open stream:
\* indata[:, self._capture_channels] fails on a column the stream does not have
CapCallback ==
    /\ cap.stream.open
    /\ cap' = [cap EXCEPT !.frame =
                 IF \A i \in DOMAIN cap.captureChannels :
                        cap.captureChannels[i] < cap.stream.channels
                 THEN [sent |-> TRUE, failed |-> FALSE, columns |-> cap.captureChannels]
                 ELSE [sent |-> FALSE, failed |-> TRUE, columns |-> <<>>]]
    /\ UNCHANGED <<lifeVars, graphVars, ring, scale, trig, smooth, setup, vis, avg, sine, race>>

CapSetDevice ==
    /\ \E d \in Devices : cap' = CapSetDeviceTo(cap, d)
    /\ UNCHANGED <<lifeVars, graphVars, ring, scale, trig, smooth, setup, vis, avg, sine, race>>

CapSetSamplerate ==
    /\ \E v \in CaptureRates : cap' = CapSetSamplerateTo(cap, v)
    /\ UNCHANGED <<lifeVars, graphVars, ring, scale, trig, smooth, setup, vis, avg, sine, race>>

CapSetChannels ==
    /\ \E v \in {1, 2} : cap' = CapSetChannelsTo(cap, v)
    /\ UNCHANGED <<lifeVars, graphVars, ring, scale, trig, smooth, setup, vis, avg, sine, race>>

CapSetCaptureChannels ==
    /\ \E chs \in CaptureChoices : cap' = CapSetCaptureChannelsTo(cap, chs)
    /\ UNCHANGED <<lifeVars, graphVars, ring, scale, trig, smooth, setup, vis, avg, sine, race>>

CaptureNext ==
    \/ CapStart
    \/ CapStop
    \/ CapCallback
    \/ CapSetDevice
    \/ CapSetSamplerate
    \/ CapSetChannels
    \/ CapSetCaptureChannels

----------------------------------------------------------------------------
(* helpers/media_ring_buffer.py: MediaRingBuffer over dvg_ringbuffer's     *)
(* RingBuffer, created without overwrite as the FFTAnalyzer and the        *)
(* ScopeBlock create it                                                    *)

\* capacity of the buffer, scaled down
RingCap == 3
\* sample values
Samples == {1, 2}
\* the frames a caller extends the buffer with
RingFrames == UNION {[1..n -> Samples] : n \in 1..RingCap}

\* RingBuffer.__init__; held lists the samples put in and not yet taken out,
\* oldest first, and is kept by the callers' steps below, not by the buffer
InitRing ==
    [arr |-> [i \in 1..RingCap |-> 0], idxL |-> 0, idxR |-> 0,
     held |-> <<>>, res |-> <<>>, raised |-> FALSE, last |-> "new"]

\* RingBuffer.__len__
RingLen(r) == r.idxR - r.idxL

\* RingBuffer._unwrap
Unwrap(r) ==
    Slice(r.arr, r.idxL, Min(r.idxR, RingCap))
        \o Slice(r.arr, 0, Max(r.idxR - RingCap, 0))

\* RingBuffer._fix_indices left as it is found
FixIndicesSkipped(r) == r

\* RingBuffer._fix_indices
FixIndices(r) ==
    IF r.idxL >= RingCap
    THEN [r EXCEPT !.idxL = @ - RingCap, !.idxR = @ - RingCap]
    ELSE IF r.idxL < 0
         THEN [r EXCEPT !.idxL = @ + RingCap, !.idxR = @ + RingCap]
         ELSE r

\* RingBuffer.extend with allow_overwrite False
Extend(r, values) ==
    LET lv == Len(values)
        ri == r.idxR % RingCap
        n1 == Min(ri + lv, RingCap) - ri
        n2 == Max(ri + lv - RingCap, 0)
    IN  IF RingLen(r) + lv > RingCap
        THEN [r EXCEPT !.raised = TRUE]
        ELSE IF lv >= RingCap
             THEN [r EXCEPT !.arr = SubSeq(values, lv - RingCap + 1, lv),
                            !.idxR = RingCap, !.idxL = 0, !.raised = FALSE]
             ELSE FixIndices(
                    [r EXCEPT !.arr = [i \in 1..RingCap |->
                                         IF ri < i /\ i <= ri + n1
                                         THEN values[i - ri]
                                         ELSE IF i <= n2 THEN values[n1 + i]
                                         ELSE r.arr[i]],
                              !.idxR = r.idxR + lv,
                              !.idxL = Max(r.idxL, r.idxR + lv - RingCap),
                              !.raised = FALSE])

\* the guard of MediaRingBuffer.reduce, never taken
ReduceNeverRaises(r, n) == FALSE

\* the guard of MediaRingBuffer.reduce
ReduceRaises(r, n) == RingLen(r) < n

\* MediaRingBuffer.reduce
Reduce(r, n) ==
    IF ReduceRaises(r, n)
    THEN [r EXCEPT !.raised = TRUE, !.res = <<>>]
    ELSE FixIndices([r EXCEPT !.res = Slice(Unwrap(r), 0, n),
                              !.idxL = @ + n,
                              !.raised = FALSE])

\* FFTAnalyzer.on_input_received, ScopeBlock.on_input_received: extend(data)
RingExtend ==
    /\ \E values \in RingFrames :
          LET r == Extend(ring, values)
          IN  ring' = [r EXCEPT !.last = "extend",
                                !.held = IF r.raised THEN @ ELSE @ \o values]
    /\ UNCHANGED <<lifeVars, graphVars, cap, scale, trig, smooth, setup, vis, avg, sine, race>>

\* a caller's reduce(n)
RingReduce ==
    /\ \E n \in 0..(RingCap + 1) :
          LET r == Reduce(ring, n)
          IN  ring' = [r EXCEPT !.last = "reduce",
                                !.held = IF r.raised THEN @ ELSE Slice(@, n, Len(@))]
    /\ UNCHANGED <<lifeVars, graphVars, cap, scale, trig, smooth, setup, vis, avg, sine, race>>

RingNext ==
    \/ RingExtend
    \/ RingReduce

----------------------------------------------------------------------------
(* helpers/scale_controller.py: MANUAL and AUTOMATIC mode *)

\* largest magnitude of a sample of a frame
Amp == 5
ScaleModes == {"AUTOMATIC", "MANUAL"}
\* frames of two samples
ScaleFrames == [1..2 -> (-Amp)..Amp]

\* ScaleController.__init__; hasAuto FALSE: _current_auto_min/_max are None;
\* emitted lists the range_changed emissions of the latest call
InitScale ==
    [mode |-> "AUTOMATIC", hasAuto |-> FALSE, autoMin |-> 0, autoMax |-> 0,
     emitted |-> <<>>]

\* np.min(data), np.max(data)
FrameMin(data) == Min(data[1], data[2])
FrameMax(data) == Max(data[1], data[2])

\* ScaleController._reset_auto_state
ResetAutoState(s) == [s EXCEPT !.hasAuto = FALSE, !.autoMin = 0, !.autoMax = 0]

\* ScaleController.mode setter; the manual limits are the initial -1.0 and 1.0
ScSetModeTo(s, m) ==
    IF s.mode = m THEN [s EXCEPT !.emitted = <<>>]
    ELSE [ResetAutoState(s) EXCEPT
            !.mode = m,
            !.emitted = IF m = "MANUAL" THEN <<[min |-> -1, max |-> 1]>> ELSE <<>>]

\* x / (d or 1) > 0.2
DevAbove(x, d) ==
    LET q == IF d = 0 THEN 1 ELSE d
    IN  IF q > 0 THEN 5 * x > q ELSE 5 * x < q

\* x / (d or 1) < -0.2
DevBelow(x, d) ==
    LET q == IF d = 0 THEN 1 ELSE d
    IN  IF q > 0 THEN 5 * x < -q ELSE 5 * x > -q

\* ScaleController._calculate_automatic_limits
CalculateAutomaticLimits(s, data) ==
    LET maxVal == FrameMax(data)
        minVal == FrameMin(data)
        now == [s EXCEPT !.hasAuto = TRUE, !.autoMin = minVal, !.autoMax = maxVal,
                         !.emitted = <<[min |-> minVal, max |-> maxVal]>>]
    IN  IF ~s.hasAuto THEN now
        ELSE IF \/ DevAbove(maxVal - s.autoMax, s.autoMax)
                \/ DevBelow(minVal - s.autoMin, s.autoMin)
             THEN now
             ELSE [s EXCEPT !.emitted = <<>>]

\* ScaleController.update
ScUpdateWith(s, data) ==
    IF s.mode = "AUTOMATIC" THEN CalculateAutomaticLimits(s, data)
    ELSE [s EXCEPT !.emitted = <<>>]

ScUpdate ==
    /\ \E data \in ScaleFrames : scale' = ScUpdateWith(scale, data)
    /\ UNCHANGED <<lifeVars, graphVars, cap, ring, trig, smooth, setup, vis, avg, sine, race>>

ScSetMode ==
    /\ \E m \in ScaleModes : scale' = ScSetModeTo(scale, m)
    /\ UNCHANGED <<lifeVars, graphVars, cap, ring, trig, smooth, setup, vis, avg, sine, race>>

ScaleNext ==
    \/ ScUpdate
    \/ ScSetMode

----------------------------------------------------------------------------
(* helpers/trigger_controller.py; levels and samples are counted in halves *)

\* largest magnitude of a sample, and the longest frame
TrigAmp == 2
TrigLen == 4
TrigLevels == {0, 1}
TrigSlopes == {"POSITIVE", "NEGATIVE"}
\* the frames handed to get_trigger_index: one column of samples
TrigFrames == UNION {[1..n -> (-TrigAmp)..TrigAmp] : n \in 0..TrigLen}

\* TriggerController.__init__ (level 0.5), holding the frame it is asked about
InitTrigger(data) ==
    [level |-> 1, slope |-> "POSITIVE", channel |-> 0, data |-> data,
     asked |-> FALSE, idx |-> 0]

\* np.max(np.abs(x))
MaxAbs(x) == CHOOSE m \in {Abs(x[i]) : i \in DOMAIN x} :
                 \A i \in DOMAIN x : Abs(x[i]) <= m

\* np.diff(x, prepend=x[0]) at Python index i
DataDiff(x, i) == IF i = 0 THEN 0 ELSE x[i + 1] - x[i]

\* data_slope at Python index i
DataSlope(t, x, i) ==
    IF t.slope = "POSITIVE" THEN DataDiff(x, i) < 0 ELSE DataDiff(x, i) > 0

\* np.abs(x - level + data_slope * 10) at Python index i
TriggerCost(t, x, i) ==
    Abs(x[i + 1] - t.level + (IF DataSlope(t, x, i) THEN 20 ELSE 0))

\* np.argmin
ArgMin(t, x) ==
    CHOOSE i \in 0..(Len(x) - 1) :
        /\ \A j \in 0..(Len(x) - 1) : TriggerCost(t, x, i) <= TriggerCost(t, x, j)
        /\ \A j \in 0..(i - 1) : TriggerCost(t, x, j) > TriggerCost(t, x, i)

\* TriggerController.get_trigger_index on a frame of one column
GetTriggerIndex(t, x) ==
    IF Len(x) = 0 \/ t.channel >= 1 THEN 0
    ELSE IF t.level > MaxAbs(x) THEN 0
    ELSE ArgMin(t, x)

TrGetTriggerIndex ==
    /\ trig' = [trig EXCEPT !.asked = TRUE, !.idx = GetTriggerIndex(trig, trig.data)]
    /\ UNCHANGED <<lifeVars, graphVars, cap, ring, scale, smooth, setup, vis, avg, sine, race>>

\* TriggerController.level setter
TrSetLevel ==
    /\ \E v \in TrigLevels :
          trig' = IF trig.level # v THEN [trig EXCEPT !.level = v, !.asked = FALSE]
                  ELSE trig
    /\ UNCHANGED <<lifeVars, graphVars, cap, ring, scale, smooth, setup, vis, avg, sine, race>>

\* TriggerController.slope setter
TrSetSlope ==
    /\ \E v \in TrigSlopes :
          trig' = IF trig.slope # v THEN [trig EXCEPT !.slope = v, !.asked = FALSE]
                  ELSE trig
    /\ UNCHANGED <<lifeVars, graphVars, cap, ring, scale, smooth, setup, vis, avg, sine, race>>

\* TriggerController.channel setter
TrSetChannel ==
    /\ \E v \in {0, 1} :
          trig' = IF trig.channel # v THEN [trig EXCEPT !.channel = v, !.asked = FALSE]
                  ELSE trig
    /\ UNCHANGED <<lifeVars, graphVars, cap, ring, scale, smooth, setup, vis, avg, sine, race>>

TriggerNext ==
    \/ TrGetTriggerIndex
    \/ TrSetLevel
    \/ TrSetSlope
    \/ TrSetChannel

----------------------------------------------------------------------------
(* blocks/octave_smoother.py: the averaging windows *)

\* largest number of bins of an input format
MaxBins == 8
\* 2**(bandwidth/2) - 2**(-bandwidth/2) in tenths, for bandwidths from -1 to 6
Alphas == {-7, 0, 2, 7, 15, 79}

\* OctaveSmoother.__init__ with a bandwidth whose relative width is a
InitSmoother(a) == [alpha |-> a, nBins |-> 0, ready |-> FALSE, left |-> <<>>, right |-> <<>>]

\* np.floor(np.maximum(k * alpha, 3.0) / 2)
HalfWidth(a, k) == IF k * a <= 30 THEN 1 ELSE (k * a) \div 20

\* the left index of a bin above 0 taken as computed
ClampLeftSkipped(l, k) == l

\* left_indices[1:] = np.maximum(left_indices[1:], 1)
ClampLeft(l, k) == IF k >= 1 THEN Max(l, 1) ELSE l

\* np.clip
Clip(x, lo, hi) == Min(Max(x, lo), hi)

\* self._window_left_indices[k]
WindowLeft(a, n, k) == Clip(ClampLeft(k - HalfWidth(a, k), k), 0, n - 1)

\* self._window_right_indices[k]
WindowRight(a, n, k) == Clip(k + HalfWidth(a, k), 0, n - 1)

\* OctaveSmoother.on_format_received; position k + 1 of left and right is bin k
OsOnFormatReceived ==
    /\ \E n \in 0..MaxBins :
          smooth' = [smooth EXCEPT
                       !.nBins = n, !.ready = TRUE,
                       !.left = [i \in 1..n |-> WindowLeft(smooth.alpha, n, i - 1)],
                       !.right = [i \in 1..n |-> WindowRight(smooth.alpha, n, i - 1)]]
    /\ UNCHANGED <<lifeVars, graphVars, cap, ring, scale, trig, setup, vis, avg, sine, race>>

\* OctaveSmoother.bandwidth setter: max(0.01, value)
OsSetBandwidth ==
    /\ \E a \in Alphas : smooth' = [smooth EXCEPT !.alpha = Max(a, 0)]
    /\ UNCHANGED <<lifeVars, graphVars, cap, ring, scale, trig, setup, vis, avg, sine, race>>

SmootherNext ==
    \/ OsOnFormatReceived
    \/ OsSetBandwidth

----------------------------------------------------------------------------
(* helpers/registry.py and Block.add_input_port / add_output_port *)

\* class names handed to register_block
BlockTypes == {"SignalGenerator", "FFTAnalyzer", "Scope"}
\* port names handed to one block
SetupPorts == {"a", "b"}

\* an empty BLOCK_REGISTRY and a block without ports; raised: the latest call
\* ended with an exception
InitSetup == [registry |-> {}, inputs |-> {}, outputs |-> {}, raised |-> FALSE]

\* register_block
RegisterBlock(s, t) ==
    IF t \in s.registry THEN [s EXCEPT !.raised = TRUE]
    ELSE [s EXCEPT !.registry = @ \cup {t}, !.raised = FALSE]

\* Block.add_input_port
AddInputPort(s, p) ==
    IF p \in s.inputs THEN [s EXCEPT !.raised = FALSE]
    ELSE [s EXCEPT !.inputs = @ \cup {p}, !.raised = FALSE]

\* Block.add_output_port
AddOutputPort(s, p) ==
    IF p \in s.outputs THEN [s EXCEPT !.raised = FALSE]
    ELSE [s EXCEPT !.outputs = @ \cup {p}, !.raised = FALSE]

StRegisterBlock ==
    /\ \E t \in BlockTypes : setup' = RegisterBlock(setup, t)
    /\ UNCHANGED <<lifeVars, graphVars, cap, ring, scale, trig, smooth, vis, avg, sine, race>>

StAddInputPort ==
    /\ \E p \in SetupPorts : setup' = AddInputPort(setup, p)
    /\ UNCHANGED <<lifeVars, graphVars, cap, ring, scale, trig, smooth, vis, avg, sine, race>>

StAddOutputPort ==
    /\ \E p \in SetupPorts : setup' = AddOutputPort(setup, p)
    /\ UNCHANGED <<lifeVars, graphVars, cap, ring, scale, trig, smooth, vis, avg, sine, race>>

SetupNext ==
    \/ StRegisterBlock
    \/ StAddInputPort
    \/ StAddOutputPort

----------------------------------------------------------------------------
(* blocks/scope_block.py: channel visibility *)

\* most channels of a format
MaxChannels == 3
ChanNames == {"L", "R", "M"}
\* the channel names of a format, in the format's order
ChannelLists ==
    {s \in UNION {[1..n -> ChanNames] : n \in 0..MaxChannels} :
        \A i, j \in DOMAIN s : i # j => s[i] # s[j]}

\* Scope.__init__: _channels_visibility = {}; "none": the name is not a key;
\* names and before: the channels of the latest format and of the one before it
InitVisibility ==
    [visible |-> [c \in ChanNames |-> "none"], names |-> <<>>, before |-> <<>>,
     announced |-> FALSE]

\* a channel is shown whatever was set for it
AlwaysVisible(old, name) == "shown"

\* self._channels_visibility.get(name, True)
KeptVisibility(old, name) == IF old[name] = "none" THEN "shown" ELSE old[name]

\* Scope.on_format_received
ScopeOnFormatReceived(v, chans) ==
    [v EXCEPT !.visible = [c \in ChanNames |->
                             IF \E i \in DOMAIN chans : chans[i] = c
                             THEN KeptVisibility(v.visible, c) ELSE "none"],
              !.before = v.names, !.names = chans, !.announced = FALSE]

\* Scope.set_channel_visible
SetChannelVisible(v, name, to) ==
    IF v.visible[name] # "none" /\ v.visible[name] # to
    THEN [v EXCEPT !.visible[name] = to, !.announced = TRUE]
    ELSE [v EXCEPT !.announced = FALSE]

ScFormat ==
    /\ \E chans \in ChannelLists : vis' = ScopeOnFormatReceived(vis, chans)
    /\ UNCHANGED <<lifeVars, graphVars, cap, ring, scale, trig, smooth, setup, avg, sine, race>>

ScSetVisible ==
    /\ \E name \in ChanNames, to \in {"shown", "hidden"} :
          vis' = SetChannelVisible(vis, name, to)
    /\ UNCHANGED <<lifeVars, graphVars, cap, ring, scale, trig, smooth, setup, avg, sine, race>>

VisibilityNext ==
    \/ ScFormat
    \/ ScSetVisible

----------------------------------------------------------------------------
(* FrequencyResponse: the pink-noise moving average, one bin of one channel *)

\* largest frame rate of an input format
MaxRate == 2

\* averaging times, in tenths of a second (constructor default 2.0 s)
AvgTimes == {1, 8, 20}

\* FrequencyResponseMode
FrModes == {"PINK_NOISE", "MULTI_TONE"}

\* number of frames followed after a reset
MaxHist == 4

\* largest magnitude of an input frame
MaxData == 2

\* self._power_sum is None
NoSum == -1

\* FrequencyResponse.__init__: no format, no sum, target frame count 1;
\* hist is the sequence of power frames received since the last reset
InitAverage == [known |-> FALSE, target |-> 1, fifo |-> <<>>, sum |-> NoSum,
                hist |-> <<>>, raised |-> FALSE,
                mode |-> "PINK_NOISE", avgTime |-> 20, rate |-> 0, curve |-> "none"]

\* get_input_port: the block's only input port is "in-abs-rms"
FrGetInputPort(name) == IF name = "in-abs-rms" THEN "port" ELSE "none"

\* max(1, int(self._averaging_time * fft_frame_rate)), the time in tenths
TargetFrameCount(time, rate) == Max(1, (time * rate) \div 10)

\* _create_correction_curve: the pink-noise curve in PINK_NOISE mode, else none
CreateCorrectionCurve(a) ==
    [a EXCEPT !.curve = IF a.mode = "PINK_NOISE" THEN "pink" ELSE "none"]

RECURSIVE SeqSum(_)
SeqSum(q) == IF q = <<>> THEN 0 ELSE Head(q) + SeqSum(Tail(q))

\* reset_average: clear the FIFO; the sum is zero once the format is known
ResetAverage(a) ==
    [a EXCEPT !.fifo = <<>>, !.sum = IF a.known THEN 0 ELSE NoSum,
              !.hist = <<>>, !.raised = FALSE]

\* on_format_received: store the dimensions and the target frame count, then
\* _update_media_info creates the correction curve and resets the average
FrOnFormatReceived(a, bins, rate) ==
    ResetAverage(CreateCorrectionCurve(
        [a EXCEPT !.known = bins > 0, !.rate = rate,
                  !.target = TargetFrameCount(a.avgTime, rate)]))

\* mode.setter: store a different mode; the correction curve is recreated
\* only when get_input_port("in-abs") finds a port with a format
SetMode(a, m) ==
    IF a.mode = m THEN a
    ELSE LET b == [a EXCEPT !.mode = m]
         IN  IF FrGetInputPort("in-abs") # "none" /\ a.rate # 0
             THEN CreateCorrectionCurve(b)
             ELSE b

\* averaging_time.setter: store a different time (at least 0.1 s); the target
\* is recalculated only when get_input_port("in-abs") finds a port with a format
SetAveragingTime(a, t) ==
    LET new == Max(1, t)
    IN  IF a.avgTime = new THEN a
        ELSE LET b == [a EXCEPT !.avgTime = new]
             IN  IF FrGetInputPort("in-abs") # "none" /\ a.rate # 0
                 THEN [b EXCEPT !.target = TargetFrameCount(new, a.rate)]
                 ELSE b

\* a FIFO that is never trimmed
NeverOverfull(n, t) == FALSE

\* if len(self._frame_buffer) > self._target_frame_count
Overfull(n, t) == n > t

\* _process_pink_noise: append the power frame and add it to the sum (the
\* addition raises TypeError while the sum is None), then drop the oldest
\* frame and subtract it when the FIFO is longer than the target
ProcessPinkNoise(a, d) ==
    LET p     == d * d
        fifo1 == Append(a.fifo, p)
        seen  == Append(a.hist, p)
    IN  IF a.sum = NoSum
        THEN [a EXCEPT !.fifo = fifo1, !.hist = seen, !.raised = TRUE]
        ELSE IF Overfull(Len(fifo1), a.target)
             THEN [a EXCEPT !.fifo = Tail(fifo1), !.sum = a.sum + p - Head(fifo1),
                            !.hist = seen, !.raised = FALSE]
             ELSE [a EXCEPT !.fifo = fifo1, !.sum = a.sum + p,
                            !.hist = seen, !.raised = FALSE]

\* a format arrives on "in-abs-rms"
FrFormat ==
    /\ \E bins \in 0..1, rate \in 1..MaxRate : avg' = FrOnFormatReceived(avg, bins, rate)
    /\ UNCHANGED <<lifeVars, graphVars, cap, ring, scale, trig, smooth, setup, vis, sine, race>>

\* on_input_received: a frame on "in-abs-rms" is averaged in PINK_NOISE mode;
\* in MULTI_TONE mode it is interpolated and sent, and nothing is kept
FrInput ==
    /\ Len(avg.hist) < MaxHist
    /\ \E d \in 0..MaxData :
          avg' = IF avg.mode = "PINK_NOISE" THEN ProcessPinkNoise(avg, d) ELSE avg
    /\ UNCHANGED <<lifeVars, graphVars, cap, ring, scale, trig, smooth, setup, vis, sine, race>>

\* on_start, or reset_average called directly
FrReset ==
    /\ avg' = ResetAverage(avg)
    /\ UNCHANGED <<lifeVars, graphVars, cap, ring, scale, trig, smooth, setup, vis, sine, race>>

\* the mode is set
FrSetMode ==
    /\ \E m \in FrModes : avg' = SetMode(avg, m)
    /\ UNCHANGED <<lifeVars, graphVars, cap, ring, scale, trig, smooth, setup, vis, sine, race>>

\* the averaging time is set
FrSetAveragingTime ==
    /\ \E t \in AvgTimes \cup {0} : avg' = SetAveragingTime(avg, t)
    /\ UNCHANGED <<lifeVars, graphVars, cap, ring, scale, trig, smooth, setup, vis, sine, race>>

AverageNext ==
    \/ FrFormat
    \/ FrInput
    \/ FrReset
    \/ FrSetMode
    \/ FrSetAveragingTime

----------------------------------------------------------------------------
(* SignalGenerator._generate_sine: the length of the sine table *)

\* largest sample rate and sine frequency, scaled down
MaxHz == 6

\* largest block size, scaled down
MaxBlock == 3

\* ceil(a / b) for positive integers
CeilDiv(a, b) == (a + b - 1) \div b

\* SignalGenerator.__init__, scaled down; no table yet
InitSine == [samplerate |-> MaxHz, blocksize |-> 1, frequency |-> 1, length |-> 0]

\* _generate_sine: N = ceil(1 / f) samples cover one cycle of f = frequency /
\* samplerate, and the table is the multiple of 10 * N that holds a block
SignalLength(samplerate, blocksize, frequency) ==
    LET N == CeilDiv(samplerate, frequency)
    IN  CeilDiv(blocksize, 10 * N) * 10 * N

SnSetSamplerate ==
    /\ \E v \in 1..MaxHz : sine' = [sine EXCEPT !.samplerate = v]
    /\ UNCHANGED <<lifeVars, graphVars, cap, ring, scale, trig, smooth, setup, vis, avg, race>>

SnSetBlocksize ==
    /\ \E v \in 1..MaxBlock : sine' = [sine EXCEPT !.blocksize = v]
    /\ UNCHANGED <<lifeVars, graphVars, cap, ring, scale, trig, smooth, setup, vis, avg, race>>

SnSetFrequency ==
    /\ \E v \in 1..MaxHz : sine' = [sine EXCEPT !.frequency = v]
    /\ UNCHANGED <<lifeVars, graphVars, cap, ring, scale, trig, smooth, setup, vis, avg, race>>

\* on_start: the table is generated from the current parameters
SnGenerate ==
    /\ sine' = [sine EXCEPT
                  !.length = SignalLength(sine.samplerate, sine.blocksize, sine.frequency)]
    /\ UNCHANGED <<lifeVars, graphVars, cap, ring, scale, trig, smooth, setup, vis, avg, race>>

SineNext ==
    \/ SnSetSamplerate
    \/ SnSetBlocksize
    \/ SnSetFrequency
    \/ SnGenerate

----------------------------------------------------------------------------
(* Block.start and Block.stop called from two threads on a worker-thread block *)

\* the threads that call start() and stop()
Callers == {"c1", "c2"}
\* number of start() and stop() calls followed
MaxCalls == 5
\* number of worker threads the calls can create
MaxWorkers == 3

\* the block as constructed: STOPPED, no thread object; thr is the position of
\* each worker thread, ref is self.thread, tgt the thread a join() waits for
InitRace == [state |-> "STOPPED", lock |-> "free",
             pc |-> [c \in Callers |-> "idle"],
             tgt |-> [c \in Callers |-> 0],
             thr |-> [w \in 1..MaxWorkers |-> "none"],
             ref |-> 0, calls |-> 0]

\* the worker threads that are alive
Alive(r) == {w \in 1..MaxWorkers : r.thr[w] = "run"}

\* start(): take the state lock; STOPPED -> STARTED and go on to on_start with
\* the lock held, else return True
RcStartEnter(c) ==
    /\ race.pc[c] = "idle" /\ race.lock = "free" /\ race.calls < MaxCalls
    /\ race' = IF race.state = "STOPPED"
               THEN [race EXCEPT !.state = "STARTED", !.lock = c,
                                 !.pc[c] = "on_start", !.calls = @ + 1]
               ELSE [race EXCEPT !.calls = @ + 1]
    /\ UNCHANGED <<lifeVars, graphVars, cap, ring, scale, trig, smooth, setup, vis, avg, sine>>

\* on_start: self.thread = Thread(target=self._run); self.thread.start();
\* start() then returns True and releases the state lock
RcOnStart(c) ==
    /\ race.pc[c] = "on_start"
    /\ \E w \in 1..MaxWorkers :
          /\ race.thr[w] = "none"
          /\ \A v \in 1..(w - 1) : race.thr[v] # "none"
          /\ race' = [race EXCEPT !.thr[w] = "run", !.ref = w,
                                  !.lock = "free", !.pc[c] = "idle"]
    /\ UNCHANGED <<lifeVars, graphVars, cap, ring, scale, trig, smooth, setup, vis, avg, sine>>

\* stop(): under the state lock STARTED -> STOPPED, else return True; the
\* lock is released before on_stop is called
RcStopEnter(c) ==
    /\ race.pc[c] = "idle" /\ race.lock = "free" /\ race.calls < MaxCalls
    /\ race' = IF race.state = "STARTED"
               THEN [race EXCEPT !.state = "STOPPED", !.pc[c] = "on_stop",
                                 !.calls = @ + 1]
               ELSE [race EXCEPT !.calls = @ + 1]
    /\ UNCHANGED <<lifeVars, graphVars, cap, ring, scale, trig, smooth, setup, vis, avg, sine>>

\* on_stop: self.thread is read, and join() is called on that thread
RcOnStop(c) ==
    /\ race.pc[c] = "on_stop"
    /\ race' = [race EXCEPT !.tgt[c] = race.ref, !.pc[c] = "join"]
    /\ UNCHANGED <<lifeVars, graphVars, cap, ring, scale, trig, smooth, setup, vis, avg, sine>>

\* join() returns once that thread has ended; stop() returns True
RcJoin(c) ==
    /\ race.pc[c] = "join"
    /\ race.thr[race.tgt[c]] = "done"
    /\ race' = [race EXCEPT !.pc[c] = "idle", !.tgt[c] = 0]
    /\ UNCHANGED <<lifeVars, graphVars, cap, ring, scale, trig, smooth, setup, vis, avg, sine>>

\* _run: the loop ends when is_running(), which takes the state lock, is False
RcRun(w) ==
    /\ race.thr[w] = "run"
    /\ race.lock = "free"
    /\ race.state # "STARTED"
    /\ race' = [race EXCEPT !.thr[w] = "done"]
    /\ UNCHANGED <<lifeVars, graphVars, cap, ring, scale, trig, smooth, setup, vis, avg, sine>>

RcStart == \E c \in Callers : RcStartEnter(c) \/ RcOnStart(c)

RcStop == \E c \in Callers : RcStopEnter(c) \/ RcOnStop(c) \/ RcJoin(c)

RcWorker == \E w \in 1..MaxWorkers : RcRun(w)

RaceNext ==
    \/ RcStart
    \/ RcStop
    \/ RcWorker

----------------------------------------------------------------------------
(* the helper objects as constructed *)

HelperStart ==
    /\ cap = InitCapture
    /\ ring = InitRing
    /\ scale = InitScale
    /\ trig = InitTrigger(<<>>)
    /\ smooth = InitSmoother(2)
    /\ setup = InitSetup
    /\ vis = InitVisibility
    /\ avg = InitAverage
    /\ sine = InitSine
    /\ race = InitRace

----------------------------------------------------------------------------
(* Part II: block instances, ports and formats *)

\* the block instances: one SignalGenerator, one FFTAnalyzer, one Scope
Objs == {"gen", "fft", "scope"}
NoBlock == "-"

\* FFTAnalyzer's output ports, in the order _update_media_info publishes on them
FftOutputSeq == <<"out-abs-peak", "out-db-peak", "out-abs-rms", "out-db-rms">>
FftOutputs == {FftOutputSeq[i] : i \in 1..Len(FftOutputSeq)}

\* the ports @define_ports creates for each class
OutputPortsOf(b) == CASE b = "gen" -> {"out"} [] b = "fft" -> FftOutputs [] OTHER -> {}
InputPortsOf(b) == CASE b = "fft" -> {"in"} [] b = "scope" -> {"in"} [] OTHER -> {}

OutPorts == UNION {{<<b, n>> : n \in OutputPortsOf(b)} : b \in Objs}
InPorts == UNION {{<<b, n>> : n \in InputPortsOf(b)} : b \in Objs}
NoPort == <<"-", "-">>
Owner(p) == p[1]

IsOutputPortValid(b, n) == n \in OutputPortsOf(b)
IsInputPortValid(b, n) == n \in InputPortsOf(b)
IsProducerNoInputs(b) == OutputPortsOf(b) # {} /\ InputPortsOf(b) = {}

\* Block.is_producer: len(self._output_ports) > 0
IsProducer(b) == OutputPortsOf(b) # {}

\* keys of the block map: node ids, and None (add_block's default block_id)
Ids == {"n1", "n2"}
NoneId == "None"
Keys == Ids \cup {NoneId}

\* longest producer list the model builds
MaxProducers == 2

\* MediaInfo; NullFmt stands for None
NullFmt == [dom |-> "null", sr |-> 0, ch |-> 0, bs |-> 0, fft |-> 0]

\* SignalGenerator's constructor defaults
DefaultCfg == [sr |-> 48000, ch |-> 1, bs |-> 960]
SampleRates == {48000, 44100}
ChannelCounts == {1, 2}
BlockSizes == {960, 480}

\* SignalGenerator._update_media_info
GenFormat(c) == [dom |-> "time", sr |-> c.sr, ch |-> c.ch, bs |-> c.bs, fft |-> 0]

\* FFTAnalyzer._update_media_info, from the input format f
FftFormat(f, n) ==
    [dom |-> "frequency", sr |-> f.sr \div n, ch |-> f.ch,
     bs |-> (n \div 2) + 1, fft |-> n]

\* FFTAnalyzer's constructor defaults, and the values its setters are called with
DefaultFftCfg == [size |-> FftSize, overlap |-> FftOverlap, window |-> "blackmanharris"]
FftSizes == {FftSize, 2 * FftSize}
FftOverlaps == {FftOverlap, 1, FftSize + 1, 2 * FftSize}
FftWindows == {"blackmanharris", "hann"}

\* FFTAnalyzer._create_window: the window array and its gains, by type and length
WindowOf(c) == [type |-> c.window, n |-> c.size]

\* FFTAnalyzer._create_buffer: the capacity of the input buffer
BufferFor(c, f) == 2 * (c.size + f.bs)

\* FFTAnalyzer._calculate_fft_scaling: the tables, by bins, channels and window gain
NoScale == [bins |-> 0, ch |-> 0, gain |-> "none"]
ScalingFor(c, f, win) == [bins |-> (c.size \div 2) + 1, ch |-> f.ch, gain |-> win]

\* what FFTAnalyzer.__init__ leaves: no buffer, the default window, no scaling
InitDerived == [buf |-> 0, win |-> WindowOf(DefaultFftCfg), scale |-> NoScale]

\* a block of samples as the SignalGenerator's worker produces it: its length
\* and its cadence
NoData == [bs |-> 0, sr |-> 0]
GenData(c) == [bs |-> c.bs, sr |-> c.sr]

\* what an input port's owner has been notified of since the port's latest connect():
\* moved: connect() found the port connected to another output; connFmt: the output's format when
\* connect() was called; notes: the format notifications during connect();
\* got: the format the latest of them carried; first: the kind of the first
\* notification; lastData: the latest data
NoObs == [moved |-> FALSE, connFmt |-> NullFmt, notes |-> 0, got |-> NullFmt,
          first |-> "none", lastData |-> NoData]

\* the output format a freshly constructed instance publishes (init_ports)
InitOutFmt(o) == IF Owner(o) = "gen" THEN GenFormat(DefaultCfg) ELSE NullFmt

GraphStart ==
    /\ blocks = [k \in Keys |-> NoBlock]
    /\ producers = <<>>
    /\ engRunning = FALSE
    /\ blockId = [b \in Objs |-> "unset"]
    /\ bstate = [b \in Objs |-> "STOPPED"]
    /\ cfg = DefaultCfg
    /\ conn = [p \in InPorts |-> NoPort]
    /\ dataSubs = {}
    /\ fmtSubs = {}
    /\ outFmt = [o \in OutPorts |-> InitOutFmt(o)]
    /\ inFmt = [p \in InPorts |-> NullFmt]
    /\ obs = [p \in InPorts |-> NoObs]
    /\ raised = FALSE
    /\ startLog = <<>>
    /\ fftCfg = DefaultFftCfg
    /\ fftDerived = InitDerived
    /\ propTick = FALSE

\* the graph state as one value: operations are functions from state to state;
\* raised: an exception is propagating; stopLog: the blocks the call has
\* stopped, in the order of stopping; counting: the input port whose
\* connect() is executing
Cur ==
    [blocks |-> blocks, producers |-> producers, running |-> engRunning,
     blockId |-> blockId, bstate |-> bstate, cfg |-> cfg, conn |-> conn,
     dataSubs |-> dataSubs, fmtSubs |-> fmtSubs, outFmt |-> outFmt, inFmt |-> inFmt,
     obs |-> obs, startLog |-> startLog, fftCfg |-> fftCfg, fftDerived |-> fftDerived,
     propTick |-> propTick, raised |-> FALSE, counting |-> NoPort,
     stopLog |-> <<>>]

----------------------------------------------------------------------------
(* core/port.py *)

RECURSIVE UpdateFormat(_, _, _), NotifyFormat(_, _, _), OnFormatReceived(_, _, _),
          PublishAll(_, _, _), FftRebuild(_, _, _)

\* the owner's record of a format notification
Noted(o, counted, f) ==
    [o EXCEPT !.notes = IF counted THEN @ + 1 ELSE @,
              !.got = IF counted THEN f ELSE @,
              !.first = IF @ = "none" THEN "format" ELSE @]

\* the owner's record of a data notification
Heard(o, d) ==
    [o EXCEPT !.lastData = d, !.first = IF @ = "none" THEN "data" ELSE @]

\* InputPort._on_format_received and the owner's on_format_received: the port
\* stores the format; Scope and FFTAnalyzer size their buffer from it (None
\* raises AttributeError); the FFTAnalyzer then publishes its output format
OnFormatReceived(g, p, f) ==
    LET g1 == [g EXCEPT !.inFmt[p] = f, !.obs[p] = Noted(@, g.counting = p, f)]
    IN  IF f = NullFmt THEN [g1 EXCEPT !.raised = TRUE]
        ELSE IF Owner(p) = "fft" THEN FftRebuild(g1, TRUE, TRUE)
        ELSE g1

\* FFTAnalyzer: _create_buffer, _create_window, _calculate_fft_scaling and
\* _update_media_info, as on_format_received and the setters call them
FftRebuild(g, buffer, window) ==
    LET f == g.inFmt[<<"fft", "in">>]
        win == IF window THEN WindowOf(g.fftCfg) ELSE g.fftDerived.win
        g1 == [g EXCEPT !.fftDerived =
                  [buf |-> IF buffer THEN BufferFor(g.fftCfg, f) ELSE @.buf,
                   win |-> win,
                   scale |-> ScalingFor(g.fftCfg, f, win)]]
    IN  PublishAll(g1, FftOutputSeq, FftFormat(f, g.fftCfg.size))

\* FFTAnalyzer._update_media_info: set_port_format on each output in turn
PublishAll(g, names, f) ==
    IF names = <<>> \/ g.raised THEN g
    ELSE PublishAll(UpdateFormat(g, <<"fft", Head(names)>>, f), Tail(names), f)

\* Signal.send on format_signal: every receiver in turn; an exception ends it
NotifyFormat(g, ps, f) ==
    IF ps = {} \/ g.raised THEN g
    ELSE LET p == CHOOSE q \in ps : TRUE
         IN  NotifyFormat(OnFormatReceived(g, p, f), ps \ {p}, f)

\* OutputPort.update_format
UpdateFormat(g, o, f) ==
    NotifyFormat([g EXCEPT !.outFmt[o] = f],
                 {p \in InPorts : <<o, p>> \in g.fmtSubs}, f)

\* OutputPort.send_data: every receiver's owner gets on_input_received
SendData(g, o, d) ==
    [g EXCEPT !.obs = [p \in InPorts |->
                         IF <<o, p>> \in g.dataSubs THEN Heard(g.obs[p], d) ELSE g.obs[p]]]

\* InputPort.disconnect; the record of what the connection delivered ends with it
Disconnect(g, p) ==
    IF g.conn[p] = NoPort THEN g
    ELSE [g EXCEPT !.dataSubs = @ \ {<<g.conn[p], p>>},
                   !.fmtSubs = @ \ {<<g.conn[p], p>>},
                   !.conn[p] = NoPort,
                   !.obs[p] = NoObs]

StillSubscribed(g, p) == g

\* InputPort.connect, first statement: if self._connected_port: self.disconnect()
Unsubscribed(g, p) == IF g.conn[p] # NoPort THEN Disconnect(g, p) ELSE g

OnConnectSilent(g, o) == g

\* OutputPort._on_connect: notify the owner, then publish the current format
OnConnect(g, o) == UpdateFormat(g, o, g.outFmt[o])

\* InputPort.connect
Connect(g, p, o) ==
    LET g0 == Unsubscribed(g, p)
        g1 == [g0 EXCEPT !.conn[p] = o,
                         !.dataSubs = @ \cup {<<o, p>>},
                         !.fmtSubs = @ \cup {<<o, p>>},
                         !.obs[p] = [NoObs EXCEPT !.moved = g.conn[p] \notin {NoPort, o},
                                            !.connFmt = g0.outFmt[o]],
                         !.counting = p]
    IN  [OnConnect(g1, o) EXCEPT !.counting = NoPort]

----------------------------------------------------------------------------
(* core/processing_engine.py *)

RejectsNothing(g) == FALSE

\* the guard every mutating engine operation starts with: if self._is_running: return
Rejects(g) == g.running

\* add_block: id = block_id, or block.id when block_id is None (AttributeError
\* when the block never had one); the map is keyed by block_id itself
AddBlock(g, b, id) ==
    IF Rejects(g) THEN g
    ELSE IF id = NoneId /\ g.blockId[b] = "unset" THEN [g EXCEPT !.raised = TRUE]
    ELSE [g EXCEPT !.blocks[id] = b,
                   !.producers = IF IsProducer(b) THEN Append(@, b) ELSE @,
                   !.blockId[b] = IF id = NoneId THEN @ ELSE id]

\* list.remove: drop the first occurrence
RemoveFirst(seq, x) ==
    LET i == CHOOSE j \in 1..Len(seq) : seq[j] = x /\ \A k \in 1..(j - 1) : seq[k] # x
    IN  SubSeq(seq, 1, i - 1) \o SubSeq(seq, i + 1, Len(seq))

RECURSIVE DisconnectAll(_, _)
\* remove_block's loop: disconnect every input port of the block
DisconnectAll(g, ps) ==
    IF ps = {} THEN g
    ELSE LET p == CHOOSE q \in ps : TRUE
         IN  DisconnectAll(Disconnect(g, p), ps \ {p})

\* remove_block
RemoveBlock(g, id) ==
    IF Rejects(g) THEN g
    ELSE IF g.blocks[id] = NoBlock THEN g
    ELSE LET b == g.blocks[id]
             g1 == [g EXCEPT !.blocks[id] = NoBlock]
             g2 == DisconnectAll(g1, {p \in InPorts : Owner(p) = b})
         IN  IF ~IsProducer(b) THEN g2
             ELSE IF \A i \in 1..Len(g2.producers) : g2.producers[i] # b
                  THEN [g2 EXCEPT !.raised = TRUE]                \* list.remove: ValueError
                  ELSE [g2 EXCEPT !.producers = RemoveFirst(@, b)]

RECURSIVE RemoveAll(_, _)
\* clear_all_blocks's loop over a copy of the keys
RemoveAll(g, ks) ==
    IF ks = {} \/ g.raised THEN g
    ELSE LET k == CHOOSE q \in ks : TRUE
         IN  RemoveAll(RemoveBlock(g, k), ks \ {k})

\* clear_all_blocks
ClearAllBlocks(g) ==
    IF Rejects(g) THEN g
    ELSE LET g1 == RemoveAll(g, {k \in Keys : g.blocks[k] # NoBlock})
         IN  IF g1.raised THEN g1
             ELSE [g1 EXCEPT !.blocks = [k \in Keys |-> NoBlock], !.producers = <<>>]

\* _get_validated_ports: <<input port, output port>>, or <<NoPort, NoPort>>
GetValidatedPorts(g, sid, sp, did, dp) ==
    IF g.blocks[sid] = NoBlock \/ g.blocks[did] = NoBlock THEN <<NoPort, NoPort>>
    ELSE IF ~IsOutputPortValid(g.blocks[sid], sp) THEN <<NoPort, NoPort>>
    ELSE IF ~IsInputPortValid(g.blocks[did], dp) THEN <<NoPort, NoPort>>
    ELSE <<<<g.blocks[did], dp>>, <<g.blocks[sid], sp>>>>

ConnectionsOpen(g) == FALSE

\* the guard of connect_ports and disconnect_ports: if self._is_running: return
ConnectionsFrozen(g) == g.running

\* connect_ports
ConnectPorts(g, sid, sp, did, dp) ==
    IF ConnectionsFrozen(g) THEN g
    ELSE LET v == GetValidatedPorts(g, sid, sp, did, dp)
         IN  IF v[1] # NoPort /\ v[2] # NoPort THEN Connect(g, v[1], v[2]) ELSE g

\* disconnect_ports
DisconnectPorts(g, sid, sp, did, dp) ==
    IF ConnectionsFrozen(g) THEN g
    ELSE LET v == GetValidatedPorts(g, sid, sp, did, dp)
         IN  IF v[1] # NoPort /\ v[2] # NoPort THEN Disconnect(g, v[1]) ELSE g

\* the blocks of the producer list
ProducerSet(g) == {g.producers[i] : i \in 1..Len(g.producers)}

RECURSIVE StartEach(_, _), StopEach(_, _)
\* for producer in self._producers: producer.start()
StartEach(g, seq) ==
    IF seq = <<>> THEN g
    ELSE LET b == Head(seq)
         IN  StartEach(IF g.bstate[b] = "STOPPED"
                       THEN [g EXCEPT !.bstate[b] = "STARTED", !.startLog = Append(@, b)]
                       ELSE g,
                       Tail(seq))

\* the order in which stop() goes through the producers: for producer in self._producers
StopOrder(seq) == seq

\* for producer in self._producers: producer.stop()
StopEach(g, seq) ==
    IF seq = <<>> THEN g
    ELSE LET b == Head(seq)
         IN  StopEach(IF g.bstate[b] = "STARTED"
                      THEN [g EXCEPT !.bstate[b] = "STOPPED", !.stopLog = Append(@, b)]
                      ELSE g,
                      Tail(seq))

\* start: Block.start() on every producer, then _is_running = True
EngineStart(g) ==
    IF g.running THEN g
    ELSE [StartEach([g EXCEPT !.startLog = <<>>], g.producers) EXCEPT !.running = TRUE]

\* stop: Block.stop() on every producer, then _is_running = False
EngineStop(g) ==
    IF ~g.running THEN g
    ELSE [StopEach(g, StopOrder(g.producers)) EXCEPT !.running = FALSE, !.startLog = <<>>]

\* a block instance as its constructor leaves it: deserialize creates such instances
Fresh(g, b) ==
    /\ g.bstate[b] = "STOPPED"
    /\ b = "gen" => g.cfg = DefaultCfg
    /\ b = "fft" => (g.fftCfg = DefaultFftCfg /\ g.fftDerived = InitDerived)
    /\ \A o \in OutPorts : Owner(o) = b =>
          /\ g.outFmt[o] = InitOutFmt(o)
          /\ \A p \in InPorts : <<o, p>> \notin g.dataSubs \cup g.fmtSubs
    /\ \A p \in InPorts : Owner(p) = b => (g.conn[p] = NoPort /\ g.inFmt[p] = NullFmt)

RECURSIVE AddNodes(_, _), ConnectAll(_, _)
\* deserialize, step 1: create and add a block for every node (no properties saved)
AddNodes(g, nodes) ==
    IF nodes = <<>> THEN g
    ELSE LET n == Head(nodes)
             g1 == AddBlock(g, n.obj, n.id)
         IN  AddNodes([g1 EXCEPT !.raised = FALSE], Tail(nodes))  \* except Exception: log

\* deserialize, step 2: connect_ports for every saved connection
ConnectAll(g, cs) ==
    IF cs = <<>> \/ g.raised THEN g
    ELSE LET c == Head(cs)
         IN  ConnectAll(ConnectPorts(g, c.sid, c.sp, c.did, c.dp), Tail(cs))

\* deserialize
Deserialize(g, data, doBlocks, doConnections) ==
    IF Rejects(g) THEN g
    ELSE LET g1 == IF doBlocks THEN ClearAllBlocks(g) ELSE g
             g2 == IF doBlocks /\ ~g1.raised THEN AddNodes(g1, data.nodes) ELSE g1
         IN  IF doConnections /\ ~g2.raised THEN ConnectAll(g2, data.connections) ELSE g2

\* saved graphs the model loads: generator into scope, generator into analyzer
SavedGraphs ==
    { [nodes |-> <<>>, connections |-> <<>>],
      [nodes |-> <<[obj |-> "gen", id |-> "n1"], [obj |-> "scope", id |-> "n2"]>>,
       connections |-> <<[sid |-> "n1", sp |-> "out", did |-> "n2", dp |-> "in"]>>],
      [nodes |-> <<[obj |-> "gen", id |-> "n1"], [obj |-> "fft", id |-> "n2"]>>,
       connections |-> <<[sid |-> "n1", sp |-> "out", did |-> "n2", dp |-> "in"]>>] }

----------------------------------------------------------------------------
(* core/media_blocks.py: the setters of the SignalGenerator's MediaBlock part *)

SetterAccepts(g, b) == FALSE

\* the guard of the setters: if self.is_running(): log an error and return
SetterRejects(g, b) == g.bstate[b] = "STARTED"

\* Block.on_property_changed: property_changed.send
OnPropertyChanged(g) == [g EXCEPT !.propTick = ~@]

\* samplerate / channels / blocksize setter: stored unless the block is running;
\* the published format is not touched
SetCfg(g, field, v) ==
    IF SetterRejects(g, "gen") THEN g
    ELSE OnPropertyChanged([g EXCEPT !.cfg = [@ EXCEPT ![field] = v]])

----------------------------------------------------------------------------
(* blocks/fft_analyzer.py: the setters *)

\* the input port holds a format: if self.get_input_port("in").media_info
FftHasFormat(g) == g.inFmt[<<"fft", "in">>] # NullFmt

\* fft_size setter
SetFftSizeTo(g, v) ==
    IF SetterRejects(g, "fft") THEN g
    ELSE LET g1 == [g EXCEPT !.fftCfg.size = v]
         IN  IF FftHasFormat(g1) THEN FftRebuild(g1, TRUE, TRUE) ELSE g1

\* fft_overlap setter
SetFftOverlapTo(g, v) ==
    IF SetterRejects(g, "fft") THEN g
    ELSE IF v >= g.fftCfg.size THEN g
    ELSE [g EXCEPT !.fftCfg.overlap = v]

\* fft_window setter
SetFftWindowTo(g, v) ==
    IF SetterRejects(g, "fft") THEN g
    ELSE LET g1 == [g EXCEPT !.fftCfg.window = v]
             g2 == [g1 EXCEPT !.fftDerived.win = WindowOf(g1.fftCfg)]
         IN  IF FftHasFormat(g2) THEN FftRebuild(g2, FALSE, FALSE) ELSE g2

----------------------------------------------------------------------------
(* Actions of the graph *)

\* the call returns (or raises) and leaves the graph as n
Commit(n) ==
    /\ blocks' = n.blocks
    /\ producers' = n.producers
    /\ engRunning' = n.running
    /\ blockId' = n.blockId
    /\ bstate' = n.bstate
    /\ cfg' = n.cfg
    /\ conn' = n.conn
    /\ dataSubs' = n.dataSubs
    /\ fmtSubs' = n.fmtSubs
    /\ outFmt' = n.outFmt
    /\ inFmt' = n.inFmt
    /\ obs' = n.obs
    /\ raised' = n.raised
    /\ startLog' = n.startLog
    /\ fftCfg' = n.fftCfg
    /\ fftDerived' = n.fftDerived
    /\ propTick' = n.propTick
    /\ UNCHANGED <<lifeVars, helperVars>>

\* the request names two blocks of the map, an output port of the first and an
\* input port of the second
NamesPorts(sid, sp, did, dp) ==
    /\ blocks[sid] # NoBlock /\ sp \in OutputPortsOf(blocks[sid])
    /\ blocks[did] # NoBlock /\ dp \in InputPortsOf(blocks[did])

\* the connection would feed a block's output back into the same block: the
\* format notification would recurse without end; the node editor builds acyclic graphs
Feedback(sid, did) == blocks[sid] # NoBlock /\ blocks[sid] = blocks[did]

\* the port names requests are made with: the generator's output, one of the
\* analyzer's outputs, the input name, each also on the wrong side
SourceNames == {"out", "out-db-rms", "in"}
DestNames == {"in", "out"}

\* engine.add_block(b, id)
AddBlockCall(b, id) == Commit(AddBlock(Cur, b, id))

DoAddBlock ==
    \E b \in Objs, id \in Ids :
        /\ Len(producers) < MaxProducers
        /\ AddBlockCall(b, id)

\* engine.remove_block(id)
RemoveBlockCall(id) == Commit(RemoveBlock(Cur, id))

DoRemoveBlock == \E id \in Ids : RemoveBlockCall(id)

\* engine.clear_all_blocks()
DoClearAllBlocks == Commit(ClearAllBlocks(Cur))

\* engine.deserialize(data, blocks, connections)
DeserializeCall(data, doBlocks, doConnections) ==
    Commit(Deserialize(Cur, data, doBlocks, doConnections))

DoDeserialize ==
    \E data \in SavedGraphs, doBlocks \in BOOLEAN, doConnections \in BOOLEAN :
        /\ doBlocks => \A i \in 1..Len(data.nodes) : Fresh(Cur, data.nodes[i].obj)
        /\ DeserializeCall(data, doBlocks, doConnections)

\* engine.connect_ports(sid, sp, did, dp)
ConnectPortsCall(sid, sp, did, dp) == Commit(ConnectPorts(Cur, sid, sp, did, dp))

DoConnectPorts ==
    \E sid \in Ids, did \in Ids, sp \in SourceNames, dp \in DestNames :
        /\ ~Feedback(sid, did)
        /\ ConnectPortsCall(sid, sp, did, dp)

\* engine.disconnect_ports(sid, sp, did, dp)
DisconnectPortsCall(sid, sp, did, dp) == Commit(DisconnectPorts(Cur, sid, sp, did, dp))

DoDisconnectPorts ==
    \E sid \in Ids, did \in Ids, sp \in SourceNames, dp \in DestNames :
        DisconnectPortsCall(sid, sp, did, dp)

DoEngineStart == Commit(EngineStart(Cur))

DoEngineStop == Commit(EngineStop(Cur))

SetSamplerate == \E v \in SampleRates : Commit(SetCfg(Cur, "sr", v))

SetChannels == \E v \in ChannelCounts : Commit(SetCfg(Cur, "ch", v))

SetBlocksize == \E v \in BlockSizes : Commit(SetCfg(Cur, "bs", v))

SetFftSize == \E v \in FftSizes : Commit(SetFftSizeTo(Cur, v))

SetFftOverlap == \E v \in FftOverlaps : Commit(SetFftOverlapTo(Cur, v))

SetFftWindow == \E v \in FftWindows : Commit(SetFftWindowTo(Cur, v))

\* one turn of the running SignalGenerator's worker: a block goes out on "out"
GenSendData ==
    /\ bstate["gen"] = "STARTED"
    /\ Commit(SendData(Cur, <<"gen", "out">>, GenData(cfg)))

\* the engine's operations on the graph
GraphNext ==
    \/ DoAddBlock
    \/ DoRemoveBlock
    \/ DoClearAllBlocks
    \/ DoDeserialize
    \/ DoConnectPorts
    \/ DoDisconnectPorts
    \/ DoEngineStart
    \/ DoEngineStop

\* a loaded graph in use: connections, runs, and the generator's settings
FormatNext ==
    \/ DoDeserialize
    \/ DoConnectPorts
    \/ DoDisconnectPorts
    \/ DoEngineStart
    \/ DoEngineStop
    \/ SetSamplerate
    \/ SetChannels
    \/ SetBlocksize
    \/ SetFftSize
    \/ SetFftOverlap
    \/ SetFftWindow
    \/ GenSendData

\* the graph and the observed block before any call
GraphBase == LifeStart /\ kind = "Block" /\ GraphStart

GraphInit == GraphBase /\ HelperStart

FormatSpec == GraphInit /\ [][FormatNext]_vars

GraphSpec == GraphInit /\ [][GraphNext]_vars

\* a stopped engine whose graph is edited call by call
EditNext ==
    \/ DoAddBlock
    \/ DoRemoveBlock
    \/ DoConnectPorts
    \/ DoDisconnectPorts

EditSpec == GraphInit /\ [][EditNext]_vars

----------------------------------------------------------------------------
(* The life-cycle specification *)

\* steps of the controlling thread that are inside a start() or stop() call
CtlContinue ==
    \/ BlockOnStart
    \/ SgOnStart
    \/ FftOnStart
    \/ CsOnStartFlags
    \/ CsOnStartThread
    \/ StartReturn
    \/ BlockOnStop
    \/ CsOnStopFlag
    \/ OnStopNotify
    \/ OnStopJoin
    \/ StopReturn

\* steps of the block's worker thread
Worker ==
    \/ SgCheck
    \/ SgFlag
    \/ SgGenRead
    \/ SgGenBuild
    \/ SgSend
    \/ FftLoop
    \/ FftAcquire
    \/ FftCheck
    \/ FftTake
    \/ FftSend
    \/ CsLoop
    \/ CsAcquire
    \/ CsCheck
    \/ CsCheckStop
    \/ CsGrab
    \/ CsProcessAcquire
    \/ CsProcessSend

\* steps of the upstream thread delivering input
Upstream ==
    \/ FftInput
    \/ FftFormatReceived
    \/ CsInputStore
    \/ CsInputNotify

\* parameter setters called from another thread
SgSetters ==
    \/ SgSetFrequency
    \/ SgSetAmplitude

LifeNext ==
    \/ StartEnter
    \/ StopEnter
    \/ CtlContinue
    \/ Worker
    \/ Upstream
    \/ SgSetters

LifeInit == LifeStart /\ GraphStart /\ HelperStart

LifeSpec == LifeInit /\ [][LifeNext]_vars

\* threads are scheduled fairly: a worker that can run runs, and a start()/stop()
\* call in progress goes on; where it needs a lock that the worker takes and
\* releases again and again, it gets the lock in the end
LifeFairSpec == LifeSpec /\ WF_vars(Worker) /\ SF_vars(CtlContinue)

\* one AudioCapture block that is started, stopped and reconfigured
CaptureSpec == GraphInit /\ [][CaptureNext]_vars

\* one MediaRingBuffer that is extended and reduced
RingSpec == GraphInit /\ [][RingNext]_vars

\* one ScaleController that is fed frames
ScaleSpec == GraphInit /\ [][ScaleNext]_vars

\* one TriggerController asked about one frame
TriggerInit ==
    /\ GraphBase
    /\ race = InitRace
    /\ sine = InitSine
    /\ avg = InitAverage
    /\ vis = InitVisibility
    /\ setup = InitSetup
    /\ cap = InitCapture /\ ring = InitRing /\ scale = InitScale
    /\ smooth = InitSmoother(2)
    /\ trig \in {InitTrigger(data) : data \in TrigFrames}

TriggerSpec == TriggerInit /\ [][TriggerNext]_vars

\* one OctaveSmoother constructed with any bandwidth
SmootherInit ==
    /\ GraphBase
    /\ race = InitRace
    /\ sine = InitSine
    /\ avg = InitAverage
    /\ vis = InitVisibility
    /\ setup = InitSetup
    /\ cap = InitCapture /\ ring = InitRing /\ scale = InitScale
    /\ trig = InitTrigger(<<>>)
    /\ smooth \in {InitSmoother(a) : a \in Alphas}

SmootherSpec == SmootherInit /\ [][SmootherNext]_vars


\* block types are registered and ports are added to one block
SetupSpec == GraphInit /\ [][SetupNext]_vars

\* one Scope that receives formats and visibility settings
VisibilitySpec == GraphInit /\ [][VisibilityNext]_vars

\* one FrequencyResponse that receives formats, frames and resets
AverageSpec == GraphInit /\ [][AverageNext]_vars

\* one SignalGenerator whose sine parameters are set and whose table is generated
SineSpec == GraphInit /\ [][SineNext]_vars

\* start() and stop() called from two threads
RaceSpec == GraphInit /\ [][RaceNext]_vars

----------------------------------------------------------------------------
(* Properties of the block life cycle *)

\* the controlling thread is executing on_stop, called from stop()
InOnStop == ctlPc \in {"on_stop", "on_stop_notify", "on_stop_join"}

\* the controlling thread is inside stop()
InStop == InOnStop \/ ctlPc = "stop_ret"

\* C1: stop() on a STARTED block sets STOPPED before on_stop is invoked: all
\* through on_stop the state lock is free and is_running() is False for every
\* thread.
C1_StoppedDuringOnStop ==
    InOnStop => (stateLock = "free" /\ ~IsRunning)

\* C1: on_stop is executing while the worker thread is still alive to observe the state
C1_Witness == InOnStop /\ call.pre = "STARTED" /\ wpc \notin Dead

\* C2: when start() on a STOPPED block has finished and its on_start returned
\* False, the state is STOPPED and start() returned False.
C2_FailedStartReverts ==
    (ctlPc = "idle" /\ call.op = "start" /\ call.hook /\ call.res = "fail")
        => (state = "STOPPED" /\ call.ret = "False")

\* C2: a start() whose on_start returned False has finished
C2_Witness ==
    ctlPc = "idle" /\ call.op = "start" /\ call.pre = "STOPPED" /\ call.res = "fail"

\* start() on a STARTED block and stop() on a STOPPED block return True, invoke
\* no hook and leave the state as it was
NoOpCalls ==
    /\ (call.op = "start" /\ call.pre = "STARTED")
          => (~call.hook /\ call.ret = "True" /\ state = "STARTED" /\ ctlPc = "idle")
    /\ (call.op = "stop" /\ call.pre = "STOPPED")
          => (~call.hook /\ call.ret = "True" /\ state = "STOPPED" /\ ctlPc = "idle")

\* the first hook ever invoked is on_start
FirstHookIsOnStart ==
    (hooks.last # "none" /\ hooks.prev = "none") => hooks.last = "on_start"

\* C3 as stated: start() on STARTED and stop() on STOPPED are no-ops, and
\* on_start and on_stop are invoked strictly alternately, beginning with on_start.
C3_StrictAlternation ==
    /\ NoOpCalls
    /\ FirstHookIsOnStart
    /\ hooks.last # "none" => hooks.prev # hooks.last

\* C3 amended: start() on STARTED and stop() on STOPPED are no-ops, the first
\* hook invoked is on_start, and a hook is invoked twice in a row only when
\* its earlier invocation returned False.
C3_AlternationUnlessFailed ==
    /\ NoOpCalls
    /\ FirstHookIsOnStart
    /\ (hooks.last # "none" /\ hooks.prev = hooks.last) => hooks.prevRes = "fail"

\* C3: a no-op start() on a STARTED block has returned, and earlier a hook
\* that had returned False was invoked again
C3_Witness ==
    /\ call.op = "start" /\ call.pre = "STARTED" /\ ctlPc = "idle"
    /\ hooks.prev = hooks.last /\ hooks.prevRes = "fail"

\* positions in which the worker has a frame in hand that it computes or sends
Computing == {"send", "grab", "process", "fit"}

\* C4: stop() of an FFTAnalyzer or CurveSmoother always terminates, and a
\* worker that was waiting on the condition when its run flag was cleared is
\* woken and exits without computing or sending another frame.
C4_StopWakesWaitingWorker ==
    /\ [](flagSeenWaiting => wpc \notin Computing)
    /\ [][flagSeenWaiting => sendTick' = sendTick]_vars
    /\ (kind \in {"FFTAnalyzer", "CurveSmoother"} /\ InStop) ~> (ctlPc = "idle")

\* C4: stop() has returned for a worker that was waiting when the flag was cleared
C4_Witness ==
    /\ flagSeenWaiting /\ wpc = "done"
    /\ ctlPc = "idle" /\ call.op = "stop" /\ call.ret = "True"

\* C5: once stop() of a worker-thread block has returned, its worker thread
\* has exited, and the block sends nothing until the next start().
C5_StopIsSynchronous ==
    /\ []((kind \in WorkerKinds /\ state = "STOPPED" /\ ctlPc \in {"idle", "stop_ret"})
             => wpc \in Dead)
    /\ [][(state = "STOPPED" /\ ctlPc = "idle") => sendTick' = sendTick]_vars

\* C5: stop() has returned True for a worker-thread block that had sent a frame
C5_Witness ==
    /\ kind \in WorkerKinds /\ sendTick
    /\ ctlPc = "idle" /\ call.op = "stop" /\ call.hook /\ call.ret = "True"

----------------------------------------------------------------------------
(* Properties of the port protocol and the engine *)

\* C6: an input port whose latest connect() found a non-null format on the
\* output port got exactly one format notification inside that connect(), it
\* carried the output's format of that moment, and no data reached the owner
\* through the connection before it.
C6_FormatOnConnect ==
    \A p \in InPorts :
        (conn[p] # NoPort /\ obs[p].connFmt # NullFmt)
            => /\ obs[p].notes = 1
               /\ obs[p].got = obs[p].connFmt
               /\ obs[p].first = "format"

\* C6: a port connected to an output with a format has since received data
C6_Witness ==
    \E p \in InPorts :
        /\ conn[p] # NoPort /\ obs[p].connFmt # NullFmt
        /\ obs[p].notes = 1 /\ obs[p].lastData # NoData

\* C7: data that reached an input port was preceded by a format, and the
\* format the port holds gives the block size and the sample rate of the data.
C7_FormatDescribesData ==
    \A p \in InPorts :
        obs[p].lastData # NoData
            => /\ obs[p].first = "format"
               /\ inFmt[p].bs = obs[p].lastData.bs
               /\ inFmt[p].sr = obs[p].lastData.sr

\* the outputs whose data or format signal input port p is subscribed to
SubscribedTo(p) == {o \in OutPorts : <<o, p>> \in dataSubs \cup fmtSubs}

\* C8: an input port is subscribed to the data and format signals of the
\* output port it records as connected and to no other, and data sent on any
\* other output port does not reach its owner.
C8_OneSubscription ==
    \A p \in InPorts :
        /\ SubscribedTo(p) = IF conn[p] = NoPort THEN {} ELSE {conn[p]}
        /\ \A o \in OutPorts : <<o, p>> \in dataSubs <=> <<o, p>> \in fmtSubs
        /\ \A o \in OutPorts \ {conn[p]} :
              SendData(Cur, o, GenData(cfg)).obs[p] = obs[p]

\* C8: a connected input port was moved from one output port to another
C8_Witness ==
    \E p \in InPorts :
        conn[p] # NoPort /\ obs[p].moved

\* C9: a call of add_block, remove_block, clear_all_blocks or deserialize
\* made while the engine is running leaves the block map, the producer list and
\* the connections as they were.
C9_RejectedWhileRunning ==
    [][(/\ engRunning
        /\ \/ \E b \in Objs, id \in Keys : AddBlockCall(b, id)
           \/ \E id \in Keys : RemoveBlockCall(id)
           \/ DoClearAllBlocks
           \/ \E data \in SavedGraphs, doBlocks \in BOOLEAN, doConnections \in BOOLEAN :
                 DeserializeCall(data, doBlocks, doConnections))
          => UNCHANGED <<blocks, producers, conn, dataSubs, fmtSubs>>]_vars

\* C9: the engine runs a graph with a producer and a connection
C9_Witness ==
    /\ engRunning
    /\ producers # <<>>
    /\ \E k \in Keys : blocks[k] # NoBlock
    /\ \E p \in InPorts : conn[p] # NoPort

\* the call that led to n changed no connection and raised nothing
Unconnected(n) ==
    /\ n.conn = conn /\ n.dataSubs = dataSubs /\ n.fmtSubs = fmtSubs
    /\ ~n.raised

\* C10: a call of connect_ports or disconnect_ports made while the engine is
\* running, or naming a block id that is not in the map, a source port that is
\* not an output of the source block or a destination port that is not an input
\* of the destination block, changes no connection and raises nothing.
C10_ConnectOnlyWhenValid ==
    \A sid \in Keys, did \in Keys, sp \in SourceNames, dp \in DestNames :
        (engRunning \/ ~NamesPorts(sid, sp, did, dp))
            => /\ Unconnected(ConnectPorts(Cur, sid, sp, did, dp))
               /\ Unconnected(DisconnectPorts(Cur, sid, sp, did, dp))

\* C10: the engine runs while a request names an existing connection
C10_Witness ==
    /\ engRunning
    /\ \E sid \in Ids, did \in Ids, sp \in SourceNames, dp \in DestNames :
          /\ NamesPorts(sid, sp, did, dp)
          /\ conn[<<blocks[did], dp>>] = <<blocks[sid], sp>>

\* the block instances the block map holds
InMap == {blocks[k] : k \in Keys} \ {NoBlock}

\* C11: every connection joins two blocks of the block map: no input port of a
\* block in the map is subscribed to an output port of a block outside it, and
\* no block outside the map is subscribed to an output port of a block in it.
C11_ConnectionsInMap ==
    \A o \in OutPorts, p \in InPorts :
        <<o, p>> \in dataSubs \cup fmtSubs => (Owner(o) \in InMap <=> Owner(p) \in InMap)

\* C12 as stated: the engine starts only blocks that have an output port and
\* no input port.
C12_OnlySourcesStarted ==
    \A b \in Objs :
        bstate[b] = "STARTED" => (OutputPortsOf(b) # {} /\ InputPortsOf(b) = {})

\* C12 amended: while the engine runs, the started blocks are exactly the
\* blocks of its producer list; they include every block of the map that has
\* an output port, whether or not it has input ports, and no block without an
\* output port; while the engine is stopped no block is started.
C12_StartsBlocksWithOutputs ==
    /\ \A b \in Objs : bstate[b] = "STARTED" => (engRunning /\ OutputPortsOf(b) # {})
    /\ engRunning =>
          /\ \A b \in Objs : bstate[b] = "STARTED" <=> b \in ProducerSet(Cur)
          /\ \A b \in InMap : OutputPortsOf(b) # {} => bstate[b] = "STARTED"

\* C12: the engine runs a graph of an analyzer, which has input and output
\* ports, and a scope, which has no output port
C12_Witness ==
    /\ engRunning
    /\ {"fft", "scope"} \subseteq InMap
    /\ bstate["fft"] = "STARTED" /\ bstate["scope"] = "STOPPED"

RECURSIVE Reverse(_)
Reverse(seq) == IF seq = <<>> THEN <<>> ELSE Append(Reverse(Tail(seq)), Head(seq))

\* C13: engine.stop() stops the blocks in the reverse of the order in which
\* engine.start() started them.
C13_StopsInReverseOrder ==
    engRunning => EngineStop(Cur).stopLog = Reverse(startLog)

\* the setter call that led to n changed no stored value, no derived table and
\* no published format, and emitted no property_changed
Untouched(n) ==
    /\ n.cfg = cfg /\ n.fftCfg = fftCfg /\ n.fftDerived = fftDerived
    /\ n.outFmt = outFmt /\ n.inFmt = inFmt
    /\ n.propTick = propTick

\* C14: while the generator is STARTED its samplerate, channels and blocksize
\* setters, and while the analyzer is STARTED its fft_size, fft_overlap and
\* fft_window setters, change no stored value, no buffer, window or scaling
\* table and no published format, and emit no property_changed.
C14_SettersRejectedWhileStarted ==
    /\ bstate["gen"] = "STARTED" =>
          /\ \A v \in SampleRates : Untouched(SetCfg(Cur, "sr", v))
          /\ \A v \in ChannelCounts : Untouched(SetCfg(Cur, "ch", v))
          /\ \A v \in BlockSizes : Untouched(SetCfg(Cur, "bs", v))
    /\ bstate["fft"] = "STARTED" =>
          /\ \A v \in FftSizes : Untouched(SetFftSizeTo(Cur, v))
          /\ \A v \in FftOverlaps : Untouched(SetFftOverlapTo(Cur, v))
          /\ \A v \in FftWindows : Untouched(SetFftWindowTo(Cur, v))

\* C14: generator and analyzer are STARTED with settings and tables that
\* earlier setter calls, made while they were STOPPED, have changed
C14_Witness ==
    /\ bstate["gen"] = "STARTED" /\ bstate["fft"] = "STARTED"
    /\ cfg # DefaultCfg
    /\ fftCfg.size # DefaultFftCfg.size /\ fftCfg.window # DefaultFftCfg.window
    /\ fftDerived.buf # 0 /\ fftDerived.scale.gain = WindowOf(fftCfg)

----------------------------------------------------------------------------
(* Properties of the helper classes and device blocks *)

\* C15: from one step of a STARTED AudioCapture block to the next, its device,
\* its captured channel indices, its channel count, its sample rate and the
\* output format that describes them stay as they are.
C15_CaptureSettingsFrozen ==
    [][(cap.state = "STARTED" /\ cap'.state = "STARTED") =>
          /\ cap'.device = cap.device
          /\ cap'.captureChannels = cap.captureChannels
          /\ cap'.channels = cap.channels
          /\ cap'.samplerate = cap.samplerate
          /\ cap'.fmt = cap.fmt]_vars

\* C16: for a buffer holding s1..sk and every n from 0 to k, reduce(n) does not
\* raise, returns s1..sn in order, and leaves exactly s(n+1)..sk in the buffer,
\* whose length is then k - n.
C16_ReduceReturnsOldest ==
    \A n \in 0..Len(ring.held) :
        LET r == Reduce(ring, n)
            k == Len(ring.held)
        IN  /\ ~r.raised
            /\ r.res = SubSeq(ring.held, 1, n)
            /\ Unwrap(r) = SubSeq(ring.held, n + 1, k)
            /\ RingLen(r) = k - n

\* C16: the latest reduce returned samples from both ends of the backing array
\* and left samples in the buffer
C16_Witness ==
    /\ ring.last = "reduce" /\ ~ring.raised
    /\ 1 <= ring.idxL /\ ring.idxL < Len(ring.res)
    /\ Len(ring.held) >= 1

\* C17: reduce(n) with n above the current length raises and leaves the backing
\* array, both indices, the contents and the length as they were.
C17_ReduceTooManyRaises ==
    \A n \in (RingLen(ring) + 1)..(RingCap + 1) :
        LET r == Reduce(ring, n)
        IN  /\ r.raised
            /\ r.arr = ring.arr /\ r.idxL = ring.idxL /\ r.idxR = ring.idxR
            /\ Unwrap(r) = ring.held
            /\ RingLen(r) = Len(ring.held)

\* C17: the latest reduce raised on a buffer whose contents wrap around the end
\* of the backing array
C17_Witness ==
    /\ ring.last = "reduce" /\ ring.raised
    /\ ring.idxR > RingCap /\ Len(ring.held) >= 2

\* x is within 20% of the bound b
Within20(x, b) == 5 * Abs(x - b) <= Abs(b)

\* C18: in AUTOMATIC mode with bounds tracked, a frame whose min and max are
\* within 20% of the tracked bounds emits nothing and keeps the bounds; a frame
\* whose max rises above the tracked max, or whose min falls below the tracked
\* min, by more than 20% emits once, with the frame's min and max, which become
\* the tracked bounds.
C18_EmitsExactlyOnDeviation ==
    (scale.mode = "AUTOMATIC" /\ scale.hasAuto) =>
        \A data \in ScaleFrames :
            LET n == ScUpdateWith(scale, data)
                lo == FrameMin(data)
                hi == FrameMax(data)
            IN  /\ (Within20(lo, scale.autoMin) /\ Within20(hi, scale.autoMax)) =>
                      /\ n.emitted = <<>>
                      /\ n.autoMin = scale.autoMin /\ n.autoMax = scale.autoMax
                /\ (\/ 5 * (hi - scale.autoMax) > Abs(scale.autoMax)
                    \/ 5 * (scale.autoMin - lo) > Abs(scale.autoMin)) =>
                      /\ n.emitted = <<[min |-> lo, max |-> hi]>>
                      /\ n.autoMin = lo /\ n.autoMax = hi

\* the selected channel crosses the level in the selected direction between
\* the Python indices c - 1 and c
Crosses(t, x, c) ==
    IF t.slope = "POSITIVE" THEN x[c] < t.level /\ x[c + 1] >= t.level
    ELSE x[c] > t.level /\ x[c + 1] <= t.level

\* C19: when the frame crosses the level in the selected direction, the index
\* returned is at the earliest such crossing: the sample that reaches the level
\* or the one just before it.
C19_ReturnsFirstCrossing ==
    (/\ trig.asked /\ trig.channel = 0
     /\ \E c \in 1..(Len(trig.data) - 1) : Crosses(trig, trig.data, c)) =>
        LET first == CHOOSE c \in 1..(Len(trig.data) - 1) :
                        /\ Crosses(trig, trig.data, c)
                        /\ \A d \in 1..(c - 1) : ~Crosses(trig, trig.data, d)
        IN  trig.idx \in {first - 1, first}

\* C20: the window computed for every bin k above 0 satisfies
\* 1 <= left <= k <= right <= n_bins - 1.
C20_WindowsExcludeDc ==
    smooth.ready =>
        \A k \in 1..(smooth.nBins - 1) :
            /\ 1 <= smooth.left[k + 1] /\ smooth.left[k + 1] <= k
            /\ k <= smooth.right[k + 1] /\ smooth.right[k + 1] <= smooth.nBins - 1

\* C20: windows computed for a width that reaches below bin 1 from bin 1 and
\* past the last bin from the bins near it
C20_Witness ==
    /\ smooth.ready /\ smooth.nBins >= 6
    /\ 1 - HalfWidth(79, 1) < 0
    /\ smooth.left[2] = 1 /\ smooth.right[2] = 4
    /\ smooth.right[smooth.nBins - 1] = smooth.nBins - 1

\* C21: registering a type name that is already registered raises, and so does
\* adding an input or an output port under a name the block already has in
\* that direction.
C21_DuplicatesRaise ==
    /\ \A t \in setup.registry : RegisterBlock(setup, t).raised
    /\ \A p \in setup.inputs : AddInputPort(setup, p).raised
    /\ \A p \in setup.outputs : AddOutputPort(setup, p).raised

\* C22: every frame the CurveSmoother's worker takes into _process_frame,
\* whether the spline fit succeeds or raises, is answered by one frame sent on
\* the output port before the worker returns to its loop.
C22_SmootherAlwaysEmits ==
    [][(kind = "CurveSmoother" /\ wpc = "fit" /\ wpc' = "loop") =>
          sendTick' # sendTick]_vars

\* C23: whatever format arrives next, every channel of it whose name is a key
\* of the visibility map keeps its setting, every other channel of it becomes
\* visible, and the keys of the map are then exactly the format's channel names.
C23_VisibilityByName ==
    \A chans \in ChannelLists :
        LET n == ScopeOnFormatReceived(vis, chans)
            In(c) == \E i \in DOMAIN chans : chans[i] = c
        IN  \A c \in ChanNames :
                /\ (In(c) /\ vis.visible[c] # "none") => n.visible[c] = vis.visible[c]
                /\ (In(c) /\ vis.visible[c] = "none") => n.visible[c] = "shown"
                /\ ~In(c) => n.visible[c] = "none"

\* C23: the latest format moved a hidden channel to another position, kept a
\* second channel and brought a channel that was not known
C23_Witness ==
    /\ vis.before = <<"L", "R">> /\ vis.names = <<"R", "M", "L">>
    /\ vis.visible["L"] = "hidden"
    /\ vis.visible["R"] = "shown" /\ vis.visible["M"] = "shown"

\* C24: while the controlling thread executes on_start or on_stop, the state
\* lock is free, so is_running() on another thread can take it.
C24_StateLockFreeInHooks ==
    ctlPc \in {"on_start", "on_start_thread", "on_stop", "on_stop_notify", "on_stop_join"}
        => stateLock = "free"

\* C25: the FFTAnalyzer's buffer is never replaced while the worker thread
\* holds the condition lock, that is, while it tests, reads or reduces it.
C25_BufferReplacedUnderLock ==
    [][bufId' # bufId => cond # "worker"]_vars

\* the table the current parameter values give
CurrentTable == [gen |-> TRUE, freq |-> sg.freq, amp |-> sg.amp]

FrameArrives == smo'.next # smo.next

\* a step in which the CurveSmoother worker took the stored frame in hand
FrameTaken == wpc = "grab" /\ wpc' = "process"

\* C27: CurveSmoother.on_input_received never waits for the block's lock: an
\* arriving frame is handled whether the lock is free or held; with the lock
\* free it replaces the slot, raises the flag and goes on to notify; with the
\* lock held it is dropped and slot and flag stay as they are. One frame at
\* most is pending, the worker takes the frame stored last, and it never takes
\* a frame it took before.
C27_InputNeverBlocks ==
    /\ []((kind = "CurveSmoother" /\ upPc = "idle" /\ smo.next <= MaxFrames)
             => ENABLED CsInputStore)
    /\ [][(FrameArrives /\ csLock = "free")
             => (smo'.slot = smo.next /\ newData' /\ upPc' = "notify")]_vars
    /\ [][(FrameArrives /\ csLock # "free")
             => (smo'.slot = smo.slot /\ newData' = newData /\ upPc' = upPc)]_vars
    /\ [](newData => smo.slot # 0)
    /\ [][FrameTaken => (smo'.proc = smo.stored /\ smo.stored > smo.last)]_vars

\* C27: frame 1 was stored and taken by the worker, and frame 2 arrived and
\* was dropped while the worker held the lock over frame 1
C27_Witness ==
    /\ kind = "CurveSmoother" /\ csLock = "worker" /\ upPc = "idle"
    /\ smo.next = 3 /\ smo.slot = 1 /\ smo.proc = 1 /\ ~newData

\* a step in which the FFTAnalyzer worker took a frame from the buffer
FftFrameTaken == kind = "FFTAnalyzer" /\ wpc = "check_stop" /\ wpc' = "send"

\* the samples of frame k (k = 0, 1, ...) when nothing is skipped
ExpectedFrame(k) == [i \in 1..FftSize |-> k * (FftSize - FftOverlap) + i]

\* C28: with the input samples numbered in arrival order since the last format
\* change, the k-th frame the FFTAnalyzer worker takes is the FftSize samples
\* from offset k * (FftSize - FftOverlap) on, and every frame taken is sent once.
C28_FramesAtHopOffsets ==
    /\ [][FftFrameTaken => fft'.frame = ExpectedFrame(fft.k)]_vars
    /\ [][(kind = "FFTAnalyzer" /\ wpc = "send" /\ wpc' # wpc)
             => sendTick' # sendTick]_vars

\* no input block was rejected since the last format change: every sample
\* that arrived was taken by the worker or is still buffered
NothingRejected == fft.next - 1 = fft.k * (FftSize - FftOverlap) + Len(fft.buf)

\* the framing as long as extend never raised: frame k starts at offset
\* k * (FftSize - FftOverlap)
FramesAtHopOffsetsUnlessOverrun ==
    [][(FftFrameTaken /\ NothingRejected) => fft'.frame = ExpectedFrame(fft.k)]_vars

\* C29: the FFTAnalyzer worker takes a frame only with at least FftSize samples
\* buffered; and, threads being scheduled fairly, whenever the block is STARTED
\* with at least FftSize samples buffered the worker takes a further frame
\* (unless the block is stopped or the buffer emptied by a new format first),
\* and a frame taken is pushed.
C29_WorkerWakes ==
    /\ [][FftFrameTaken => bufLen >= FftSize]_vars
    /\ \A n \in 0..MaxSamples :
          (kind = "FFTAnalyzer" /\ state = "STARTED" /\ bufLen >= FftSize /\ fft.k = n)
             ~> (state # "STARTED" \/ fft.k # n \/ bufLen < FftSize)
    /\ (kind = "FFTAnalyzer" /\ wpc = "send") ~> (wpc = "loop")

\* no notification is lost: the worker does not stay waiting over a buffer
\* that holds a frame; it takes one unless its thread has ended
WorkerWakesWhileAlive ==
    \A n \in 0..MaxSamples :
       (kind = "FFTAnalyzer" /\ state = "STARTED" /\ bufLen >= FftSize /\ fft.k = n)
          ~> (state # "STARTED" \/ fft.k # n \/ bufLen < FftSize \/ wpc \in Dead)

\* the last n elements of q
LastOf(q, n) == SubSeq(q, Len(q) - n + 1, Len(q))

Reinitialised(a) ==
    /\ a.fifo = <<>>
    /\ a.sum = (IF a.known THEN 0 ELSE NoSum)
    /\ a.curve = (IF a.mode = "PINK_NOISE" THEN "pink" ELSE "none")

\* C31: whatever the state, after the mode setter has changed the mode and
\* after any input format has been received, the FIFO is empty, the running sum
\* is zero (None without a format) and the correction curve is the new mode's.
C31_ReinitialisedOnChange ==
    /\ \A m \in FrModes : m # avg.mode => Reinitialised(SetMode(avg, m))
    /\ \A bins \in 0..1, rate \in 1..MaxRate :
          Reinitialised(FrOnFormatReceived(avg, bins, rate))

\* the format half of C31: every format received re-initialises the averaging
ReinitialisedOnFormat ==
    \A bins \in 0..1, rate \in 1..MaxRate :
       Reinitialised(FrOnFormatReceived(avg, bins, rate))

\* round to the nearest integer, halves to the even one, of n tenths
RoundTenths(n) ==
    LET q == n \div 10
        r == n % 10
    IN  IF r > 5 \/ (r = 5 /\ q % 2 = 1) THEN q + 1 ELSE q

\* C32: once a format has been received, the target frame count is
\* max(1, round(averaging_time x frame_rate)) for the current averaging time
\* and the frame rate of the current format.
C32_TargetFollowsSettings ==
    avg.rate # 0 => avg.target = Max(1, RoundTenths(avg.avgTime * avg.rate))

\* the target as on_format_received computes it, for the averaging time that
\* was current when the last format arrived
TargetTruncatedAtFormat ==
    avg.rate # 0 => \E t \in AvgTimes : avg.target = TargetFrameCount(t, avg.rate)

\* a table of n samples holds a whole number of cycles
WholeCycles(samplerate, frequency, n) == (frequency * n) % samplerate = 0

\* C33: whatever the sample rate, block size and sine frequency are, the sine
\* table the SignalGenerator builds from them holds a whole number of cycles.
C33_SineTableWholeCycles ==
    WholeCycles(sine.samplerate, sine.frequency,
                SignalLength(sine.samplerate, sine.blocksize, sine.frequency))

\* the sine tables that do hold whole cycles: the frequency divides the
\* sample rate, and the table then holds a block
WholeCyclesWhenDivides ==
    sine.samplerate % sine.frequency = 0 =>
       /\ WholeCycles(sine.samplerate, sine.frequency,
                      SignalLength(sine.samplerate, sine.blocksize, sine.frequency))
       /\ SignalLength(sine.samplerate, sine.blocksize, sine.frequency) >= sine.blocksize

\* the blocks stored in the block map
MapValues == {blocks[k] : k \in Keys} \ {NoBlock}

\* C34: on a stopped engine, after any add_block and remove_block calls, no
\* block is stored under two keys, every block of the producer list is a value
\* of the block map, and no block is in the producer list twice.
C34_ProducersAreMapValues ==
    /\ \A k1, k2 \in Keys : (k1 # k2 /\ blocks[k1] # NoBlock) => blocks[k1] # blocks[k2]
    /\ \A i \in 1..Len(producers) : producers[i] \in MapValues
    /\ \A i, j \in 1..Len(producers) : i # j => producers[i] # producers[j]

FormatReaches(g, o, q) ==
    OnConnect([g EXCEPT !.counting = q], o).obs[q].notes > g.obs[q].notes

\* the connect of input port p delivered no null format to its owner
NoNullDelivered(p) == obs'[p].notes > 0 => obs'[p].got # NullFmt

\* the connect of input port p to output port o delivers no format to the
\* input ports that were already connected to o
NoRedelivery(p, o) ==
    \A q \in InPorts \ {p} : conn[q] = o => ~FormatReaches(Cur, o, q)

\* C36: connect_ports delivers no null format to the consumer (an output port
\* that has published no format delivers nothing), and it delivers nothing to
\* the input ports that were already connected to the output port.
C36_NoNullFormatNoRedelivery ==
    [][\A sid \in Ids, did \in Ids, sp \in SourceNames, dp \in DestNames :
         LET v == GetValidatedPorts(Cur, sid, sp, did, dp)
         IN  (~Feedback(sid, did) /\ v[1] # NoPort /\ ConnectPortsCall(sid, sp, did, dp))
             => (NoNullDelivered(v[1]) /\ NoRedelivery(v[1], v[2]))]_vars

\* the first half of C36 alone
NoNullFormatOnConnect ==
    [][\A sid \in Ids, did \in Ids, sp \in SourceNames, dp \in DestNames :
         LET v == GetValidatedPorts(Cur, sid, sp, did, dp)
         IN  (~Feedback(sid, did) /\ v[1] # NoPort /\ ConnectPortsCall(sid, sp, did, dp))
             => NoNullDelivered(v[1])]_vars

\* the second half of C36 alone
NoRedeliveryOnConnect ==
    [][\A sid \in Ids, did \in Ids, sp \in SourceNames, dp \in DestNames :
         LET v == GetValidatedPorts(Cur, sid, sp, did, dp)
         IN  (~Feedback(sid, did) /\ v[1] # NoPort /\ ConnectPortsCall(sid, sp, did, dp))
             => NoRedelivery(v[1], v[2])]_vars

\* C37: when on_start raised instead of returning, start() leaves the block
\* in state STOPPED.
C37_RaisingStartLeavesStopped ==
    (ctlPc = "idle" /\ call.op = "start" /\ call.ret = "raise") => state = "STOPPED"

\* no start() or stop() call is in progress
NoCallInProgress == \A c \in Callers : race.pc[c] = "idle"

\* C38: for any interleaving of start() and stop() calls from two threads on a
\* worker-thread block, at most one worker thread is alive at any time, and
\* whenever the block is STOPPED with no call in progress no worker is alive.
C38_OneWorkerAtMost ==
    /\ Cardinality(Alive(race)) <= 1
    /\ (race.state = "STOPPED" /\ NoCallInProgress) => Alive(race) = {}

\* the second half of C38 alone
NoWorkerWhenStoppedAndIdle ==
    (race.state = "STOPPED" /\ NoCallInProgress) => Alive(race) = {}

\* a step in which on_input_received of the FFTAnalyzer handled an input block
FftBlockArrives == kind = "FFTAnalyzer" /\ fft'.next = fft.next + InBlock

\* C39: in every interleaving of on_input_received calls with the worker's
\* cycles and the start()/stop() calls, an arriving input block fits into the
\* FFTAnalyzer's buffer of capacity 2 * (FftSize + InBlock).
C39_BufferNeverOverflows ==
    [][FftBlockArrives => Len(fft.buf) + InBlock <= BufferSize]_vars

\* C40: after any fft_size and fft_overlap setter calls the overlap is at
\* least 0 and below the FFT size, so the hop fft_size - fft_overlap of a worker
\* cycle is positive and at most fft_size.
C40_OverlapBelowSize ==
    /\ 0 <= fftCfg.overlap /\ fftCfg.overlap < fftCfg.size
    /\ fftCfg.size - fftCfg.overlap \in 1..fftCfg.size

\* what the fft_overlap setter alone keeps: a call that changes the overlap
\* stores a value below the FFT size of that moment
OverlapBelowSizeWhenSet ==
    [][fftCfg'.overlap # fftCfg.overlap => fftCfg'.overlap < fftCfg.size]_vars

====
